---- MODULE Spec2Model ----
(***************************************************************************)
(* A model of the reedline engine (src/src/engine.rs): the read loop that   *)
(* drains and classifies bursts of terminal events, and the mode state     *)
(* machine (Regular / HistorySearch / HistoryTraversal) that dispatches    *)
(* the classified events against the editor and the history.               *)
(*                                                                         *)
(* Strings are sequences of characters.  The engine is constructed as by   *)
(* Reedline::create(): DefaultValidator, DefaultHinter without completer   *)
(* (so the current hint is always empty), an empty completer behind the    *)
(* tab handler.  The Editor, the History and the Validator are not part of *)
(* engine.rs; their operations are modelled from their contracts.          *)
(***************************************************************************)
EXTENDS Integers, Sequences, FiniteSets, TLC

\* ------------------------------------------------------------------ bounds

\* Longest buffer an insert may produce in the engine specification.
MaxLen == 2
\* Most entries a session may append to the history it started with.
MaxHist == 1
\* Most checkpoints on the undo stack above its base entry.
MaxUndo == 1
\* Most sub-events of a wrapper (besides a paste's padding).
MaxSub == 2
\* Most raw events drained in one burst in the burst specification.
MaxBurst == 11
\* Most events of a burst that are not character keys (resize notifications,
\* Ctrl-C, mouse events).
MaxSpecial == 2
\* Most checkpoints on the undo stack above its base entry in the undo
\* specification.
MaxCheckpoints == 3
\* Largest byte offset given to Span::new.
MaxOffset == 10
\* Longest line given to a completer.
MaxLine == 3

\* engine.rs: const EVENTS_THRESHOLD: usize = 10
EVENTS_THRESHOLD == 10

\* ------------------------------------------------------------ characters

NL == "\n"
Chars == {"a"}

\* ------------------------------------------------------------- sequences

Take(s, n) == SubSeq(s, 1, n)
Drop(s, n) == SubSeq(s, n + 1, Len(s))

starts_with(s, p) == Len(p) <= Len(s) /\ Take(s, Len(p)) = p

contains(s, p) ==
    \E i \in 0..(Len(s) - Len(p)) : SubSeq(s, i + 1, i + Len(p)) = p

None == [some |-> FALSE, v |-> <<>>]
Some(x) == [some |-> TRUE, v |-> x]

\* ------------------------------------------------------------ LineBuffer

LineBuffer(s, p) == [lines |-> s, insertion_point |-> p]
EmptyLineBuffer == LineBuffer(<<>>, 0)

\* text_manipulation::remove_last_grapheme, every character one cluster
remove_last_grapheme(s) == IF s = <<>> THEN s ELSE Take(s, Len(s) - 1)

\* --------------------------------------------------------------- Editor
\* editor = [line_buffer, edits, open]: the line, the undo stack (its first
\* entry is the base) and whether a coalescing group is open.

NewEditor == [line_buffer |-> EmptyLineBuffer, edits |-> <<EmptyLineBuffer>>, open |-> FALSE]

get_buffer(ed) == ed.line_buffer.lines
offset(ed) == ed.line_buffer.insertion_point
is_empty(ed) == ed.line_buffer.lines = <<>>

set_line_buffer(ed, lb) == [ed EXCEPT !.line_buffer = lb]

\* set_buffer replaces the text and leaves the cursor at its end
set_buffer(ed, s) == set_line_buffer(ed, LineBuffer(s, Len(s)))

set_insertion_point(ed, p) == [ed EXCEPT !.line_buffer.insertion_point = p]

insert_char(ed, c) ==
    LET s == get_buffer(ed)
        p == offset(ed)
    IN  set_line_buffer(ed, LineBuffer(Take(s, p) \o <<c>> \o Drop(s, p), p + 1))

backspace(ed) ==
    LET s == get_buffer(ed)
        p == offset(ed)
    IN  IF p = 0 THEN ed
        ELSE set_line_buffer(ed, LineBuffer(Take(s, p - 1) \o Drop(s, p), p - 1))

delete(ed) ==
    LET s == get_buffer(ed)
        p == offset(ed)
    IN  IF p >= Len(s) THEN ed
        ELSE set_line_buffer(ed, LineBuffer(Take(s, p) \o Drop(s, p + 1), p))

move_left(ed) == IF offset(ed) = 0 THEN ed ELSE set_insertion_point(ed, offset(ed) - 1)

move_to_end(ed) == set_insertion_point(ed, Len(get_buffer(ed)))

clear(ed) == set_line_buffer(ed, EmptyLineBuffer)

clear_to_end(ed) ==
    set_line_buffer(ed, LineBuffer(Take(get_buffer(ed), offset(ed)), offset(ed)))

is_cursor_at_first_line(ed) ==
    \A i \in 1..offset(ed) : get_buffer(ed)[i] # NL

is_cursor_at_last_line(ed) ==
    \A i \in (offset(ed) + 1)..Len(get_buffer(ed)) : get_buffer(ed)[i] # NL

\* start of the line holding position p: just after the last newline before p
LineStart(s, p) ==
    LET nls == {i \in 1..p : s[i] = NL}
    IN  IF nls = {} THEN 0 ELSE CHOOSE i \in nls : \A j \in nls : j <= i

\* end of the line holding position p: the first newline at or after p
LineEnd(s, p) ==
    LET nls == {i \in (p + 1)..Len(s) : s[i] = NL}
    IN  IF nls = {} THEN Len(s) ELSE (CHOOSE i \in nls : \A j \in nls : i <= j) - 1

Min(a, b) == IF a <= b THEN a ELSE b

move_line_up(ed) ==
    LET s == get_buffer(ed)
        p == offset(ed)
        ls == LineStart(s, p)
    IN  IF ls = 0 THEN ed
        ELSE LET pls == LineStart(s, ls - 1)
             IN  set_insertion_point(ed, Min(pls + (p - ls), ls - 1))

move_line_down(ed) ==
    LET s == get_buffer(ed)
        p == offset(ed)
        ls == LineStart(s, p)
        le == LineEnd(s, p)
    IN  IF le = Len(s) THEN ed
        ELSE set_insertion_point(ed, Min(le + 1 + (p - ls), LineEnd(s, le + 1)))

reset_undo_stack(ed) == [ed EXCEPT !.edits = <<EmptyLineBuffer>>, !.open = FALSE]

\* remember_undo_state(true) opens a new checkpoint; remember_undo_state(false)
\* merges into the open coalescing group, opening one when none is open.
remember_undo_state(ed, is_after_action) ==
    IF ~is_after_action /\ ed.open /\ Len(ed.edits) > 1
    THEN [ed EXCEPT !.edits = Append(Take(ed.edits, Len(ed.edits) - 1), ed.line_buffer)]
    ELSE [ed EXCEPT !.edits = Append(ed.edits, ed.line_buffer),
                    !.open = ~is_after_action]

undo(ed) ==
    IF Len(ed.edits) > 1
    THEN [ed EXCEPT !.edits = Take(ed.edits, Len(ed.edits) - 1),
                    !.line_buffer = ed.edits[Len(ed.edits) - 1],
                    !.open = FALSE]
    ELSE [ed EXCEPT !.line_buffer = ed.edits[1], !.open = FALSE]

\* -------------------------------------------------------------- History
\* history = [entries, cursor, query, len_on_disk]: entries oldest first,
\* cursor counted from 0, cursor = Len(entries) when no entry is at the
\* cursor, len_on_disk the number of entries loaded when the session began.

Normal(lb) == [kind |-> "Normal", original |-> lb, s |-> <<>>]
PrefixSearch(p) == [kind |-> "PrefixSearch", original |-> EmptyLineBuffer, s |-> p]
SubstringSearch(n) == [kind |-> "SubstringSearch", original |-> EmptyLineBuffer, s |-> n]

NewHistory(es) ==
    [entries |-> es, cursor |-> Len(es), query |-> Normal(EmptyLineBuffer),
     len_on_disk |-> Len(es)]

string_at_cursor(h) ==
    IF h.cursor < Len(h.entries) THEN Some(h.entries[h.cursor + 1]) ELSE None

get_navigation(h) == h.query

set_navigation(h, q) == [h EXCEPT !.query = q, !.cursor = Len(h.entries)]

append(h, line) == [h EXCEPT !.entries = Append(h.entries, line),
                             !.cursor = Len(h.entries) + 1]

matches(q, e) ==
    CASE q.kind = "PrefixSearch" -> starts_with(e, q.s)
      [] q.kind = "SubstringSearch" -> contains(e, q.s)
      [] OTHER -> TRUE

back(h) ==
    LET older == {i \in 0..(h.cursor - 1) : matches(h.query, h.entries[i + 1])}
    IN  IF older = {} THEN h
        ELSE [h EXCEPT !.cursor = CHOOSE i \in older : \A j \in older : j <= i]

forward(h) ==
    LET newer == {i \in (h.cursor + 1)..(Len(h.entries) - 1) :
                      matches(h.query, h.entries[i + 1])}
    IN  IF newer = {} THEN [h EXCEPT !.cursor = Len(h.entries)]
        ELSE [h EXCEPT !.cursor = CHOOSE i \in newer : \A j \in newer : i <= j]

\* ------------------------------------------------------------ Validator
\* DefaultValidator: a line with an unclosed bracket is Incomplete.

validate(buffer) ==
    IF \E i \in 1..Len(buffer) : buffer[i] = "(" THEN "Incomplete" ELSE "Complete"

\* --------------------------------------------------------------- events
\* ReedlineEvent and EditCommand values.

Ev(t) == [t |-> t, cmds |-> <<>>, evs |-> <<>>, size |-> 0]
Edit(cmds) == [t |-> "Edit", cmds |-> cmds, evs |-> <<>>, size |-> 0]
Paste(evs) == [t |-> "Paste", cmds |-> <<>>, evs |-> evs, size |-> 0]
Multiple(evs) == [t |-> "Multiple", cmds |-> <<>>, evs |-> evs, size |-> 0]
Resize(xy) == [t |-> "Resize", cmds |-> <<>>, evs |-> <<>>, size |-> xy]

Cmd(op) == [op |-> op, c |-> "", s |-> <<>>]
InsertChar(c) == [op |-> "InsertChar", c |-> c, s |-> <<>>]
InsertString(s) == [op |-> "InsertString", c |-> "", s |-> s]

\* EditCommand::undo_behavior: the fixed tag of each command
undo_behavior(command) ==
    CASE command.op = "InsertChar" -> "Coalesce"
      [] command.op \in {"MoveLeft", "MoveToEnd", "Undo"} -> "Ignore"
      [] OTHER -> "Full"

NoSignal == [kind |-> "None", text |-> <<>>]
Signal(kind) == [kind |-> kind, text |-> <<>>]
Success(buffer) == [kind |-> "Success", text |-> buffer]

\* --------------------------------------------------------------- engine
\* rl = [editor, history, input_mode, painter]: the fields of Reedline the
\* handlers read and write.  A handler yields [rl, signal].

Ok(rl, signal) == [rl |-> rl, signal |-> signal]

\* DefaultHinter without completer and without history: no hint
current_hint(rl) == <<>>

\* CircularCompletionHandler over an empty completer: the line is unchanged
tab_handler_handle(lb) == lb

handle_resize(painter, xy) == [painter EXCEPT !.size = xy]

append_to_history(rl) ==
    [rl EXCEPT !.history = append(rl.history, get_buffer(rl.editor))]

\* set_history_navigation_based_on_line_buffer taking its first branch always
set_history_navigation_normal(rl) ==
    [rl EXCEPT !.history = set_navigation(@, Normal(rl.editor.line_buffer))]

set_history_navigation_based_on_line_buffer(rl) ==
    IF is_empty(rl.editor) \/ offset(rl.editor) # Len(get_buffer(rl.editor))
    THEN [rl EXCEPT !.history = set_navigation(@, Normal(rl.editor.line_buffer))]
    ELSE [rl EXCEPT !.history = set_navigation(@, PrefixSearch(get_buffer(rl.editor)))]

\* enter_history_search without the set_navigation call
enter_history_search_keeping_query(rl) == [rl EXCEPT !.input_mode = "HistorySearch"]

enter_history_search(rl) ==
    [rl EXCEPT !.input_mode = "HistorySearch",
               !.history = set_navigation(@, SubstringSearch(<<>>))]

\* update_buffer_from_history showing an empty line when the history has no
\* entry at its cursor
update_buffer_from_history_clearing(rl) ==
    LET at == string_at_cursor(rl.history)
    IN  IF at.some
        THEN [rl EXCEPT !.editor = set_insertion_point(set_buffer(@, at.v), Len(at.v))]
        ELSE [rl EXCEPT !.editor = set_buffer(@, <<>>)]

\* update_buffer_from_history showing the prefix under a PrefixSearch query
update_buffer_from_history_prefix(rl) ==
    LET q == get_navigation(rl.history)
    IN  IF q.kind = "PrefixSearch"
        THEN [rl EXCEPT !.editor = set_insertion_point(set_buffer(@, q.s), Len(q.s))]
        ELSE rl

\* the SubstringSearch arm is todo!(): the engine panics
update_buffer_from_history(rl) ==
    LET q == get_navigation(rl.history)
        at == string_at_cursor(rl.history)
    IN  CASE q.kind = "Normal" ->
               IF at.some
               THEN [rl EXCEPT !.editor = set_insertion_point(set_buffer(@, at.v), Len(at.v))]
               ELSE [rl EXCEPT !.editor = set_line_buffer(@, q.original)]
          [] q.kind = "PrefixSearch" ->
               IF at.some
               THEN [rl EXCEPT !.editor = set_insertion_point(set_buffer(@, at.v), Len(at.v))]
               ELSE [rl EXCEPT !.editor = set_insertion_point(set_buffer(@, q.s), Len(q.s))]
          [] OTHER -> [rl EXCEPT !.panicked = TRUE]

\* previous_history without the test of input_mode
previous_history_restarting(rl) ==
    update_buffer_from_history(
        [set_history_navigation_based_on_line_buffer(
             [rl EXCEPT !.input_mode = "HistoryTraversal"]) EXCEPT !.history = back(@)])

\* previous_history entering HistoryTraversal under the query it finds
previous_history_keeping_query(rl) ==
    update_buffer_from_history(
        [rl EXCEPT !.input_mode = "HistoryTraversal", !.history = back(@)])

previous_history(rl) ==
    LET r1 == IF rl.input_mode # "HistoryTraversal"
              THEN set_history_navigation_based_on_line_buffer(
                       [rl EXCEPT !.input_mode = "HistoryTraversal"])
              ELSE rl
    IN  update_buffer_from_history([r1 EXCEPT !.history = back(@)])

\* next_history stepping back again when the step forward found no entry
next_history_bouncing(rl) ==
    LET r1 == IF rl.input_mode # "HistoryTraversal"
              THEN set_history_navigation_based_on_line_buffer(
                       [rl EXCEPT !.input_mode = "HistoryTraversal"])
              ELSE rl
        h1 == forward(r1.history)
    IN  update_buffer_from_history(
            [r1 EXCEPT !.history = IF string_at_cursor(h1).some THEN h1 ELSE back(h1)])

next_history(rl) ==
    LET r1 == IF rl.input_mode # "HistoryTraversal"
              THEN set_history_navigation_based_on_line_buffer(
                       [rl EXCEPT !.input_mode = "HistoryTraversal"])
              ELSE rl
    IN  update_buffer_from_history([r1 EXCEPT !.history = forward(@)])

\* up_command without the test of the cursor's line
up_command_stepping(rl) == previous_history(rl)

up_command(rl) ==
    IF is_cursor_at_first_line(rl.editor)
    THEN previous_history(rl)
    ELSE [rl EXCEPT !.editor = move_line_up(@)]

down_command(rl) ==
    IF is_cursor_at_last_line(rl.editor)
    THEN next_history(rl)
    ELSE [rl EXCEPT !.editor = move_line_down(@)]

\* run_history_commands: one command of the loop
run_history_command(rl, command) ==
    LET navigation == get_navigation(rl.history)
    IN  CASE command.op = "InsertChar" ->
               LET q == IF navigation.kind = "SubstringSearch"
                        THEN SubstringSearch(Append(navigation.s, command.c))
                        ELSE SubstringSearch(<<command.c>>)
               IN  [rl EXCEPT !.history = back(set_navigation(@, q))]
          [] command.op = "Backspace" ->
               IF navigation.kind = "SubstringSearch"
               THEN [rl EXCEPT !.history =
                        back(set_navigation(@, SubstringSearch(remove_last_grapheme(navigation.s))))]
               ELSE rl
          [] OTHER -> [rl EXCEPT !.input_mode = "Regular"]

RECURSIVE run_history_commands(_, _)
run_history_commands(rl, commands) ==
    IF commands = <<>> THEN rl
    ELSE run_history_commands(run_history_command(rl, Head(commands)), Tail(commands))

RECURSIVE insert_chars(_, _)
insert_chars(ed, s) ==
    IF s = <<>> THEN ed ELSE insert_chars(insert_char(ed, Head(s)), Tail(s))

\* run_edit_commands: the match on the command
apply_edit_command(ed, command) ==
    CASE command.op = "InsertChar" -> insert_char(ed, command.c)
      [] command.op = "InsertString" -> insert_chars(ed, command.s)
      [] command.op = "Backspace" -> backspace(ed)
      [] command.op = "Delete" -> delete(ed)
      [] command.op = "MoveLeft" -> move_left(ed)
      [] command.op = "MoveToEnd" -> move_to_end(ed)
      [] command.op = "Clear" -> clear(ed)
      [] command.op = "Undo" -> undo(ed)
      [] OTHER -> ed

\* run_edit_commands with every command's undo behaviour taken as Full
apply_undo_behavior_full(ed, command) == remember_undo_state(ed, TRUE)

\* run_edit_commands: the match on the command's undo behaviour
apply_undo_behavior(ed, command) ==
    CASE undo_behavior(command) = "Ignore" -> ed
      [] undo_behavior(command) = "Full" -> remember_undo_state(ed, TRUE)
      [] OTHER -> remember_undo_state(ed, FALSE)

RECURSIVE run_edit_commands_loop(_, _)
run_edit_commands_loop(ed, commands) ==
    IF commands = <<>> THEN ed
    ELSE run_edit_commands_loop(
             apply_undo_behavior(apply_edit_command(ed, Head(commands)), Head(commands)),
             Tail(commands))

\* run_edit_commands: leaving HistoryTraversal before the commands run
leave_history_traversal(rl) ==
    IF rl.input_mode = "HistoryTraversal"
    THEN LET at == string_at_cursor(rl.history)
             r1 == IF get_navigation(rl.history).kind = "Normal" /\ at.some
                   THEN [rl EXCEPT !.editor = set_buffer(@, at.v)]
                   ELSE rl
         IN  [r1 EXCEPT !.input_mode = "Regular"]
    ELSE rl

\* run_edit_commands without its loop over the commands
run_no_commands(rl, commands) == leave_history_traversal(rl)

run_edit_commands(rl, commands) ==
    LET r1 == leave_history_traversal(rl)
    IN  [r1 EXCEPT !.editor = run_edit_commands_loop(@, commands)]

handle_history_search_event(rl, event) ==
    CASE event.t = "CtrlD" ->
           IF is_empty(rl.editor)
           THEN Ok([rl EXCEPT !.input_mode = "Regular",
                              !.editor = reset_undo_stack(@)], Signal("CtrlD"))
           ELSE Ok(run_history_commands(rl, <<Cmd("Delete")>>), NoSignal)
      [] event.t = "CtrlC" ->
           Ok([rl EXCEPT !.input_mode = "Regular"], Signal("CtrlC"))
      [] event.t = "ClearScreen" -> Ok(rl, Signal("CtrlL"))
      [] event.t \in {"Enter", "HandleTab"} ->
           LET at == string_at_cursor(rl.history)
               r1 == IF at.some
                     THEN [rl EXCEPT !.editor = remember_undo_state(set_buffer(@, at.v), TRUE)]
                     ELSE rl
           IN  Ok([r1 EXCEPT !.input_mode = "Regular"], NoSignal)
      [] event.t = "Edit" -> Ok(run_history_commands(rl, event.cmds), NoSignal)
      [] event.t = "Resize" ->
           Ok([rl EXCEPT !.painter = handle_resize(@, event.size)], NoSignal)
      [] event.t \in {"PreviousHistory", "Up", "SearchHistory"} ->
           Ok([rl EXCEPT !.history = back(@)], NoSignal)
      [] event.t \in {"NextHistory", "Down"} ->
           LET h1 == forward(rl.history)
               h2 == IF ~string_at_cursor(h1).some THEN back(h1) ELSE h1
           IN  Ok([rl EXCEPT !.history = h2], NoSignal)
      [] OTHER -> Ok(rl, NoSignal)

RECURSIVE handle_editor_event(_, _)

RECURSIVE paste_commands(_, _)
paste_commands(rl, commands) ==
    IF commands = <<>> THEN rl
    ELSE paste_commands(
             IF Head(commands).op = "InsertChar"
             THEN [rl EXCEPT !.editor = insert_char(@, Head(commands).c)]
             ELSE run_edit_commands(rl, <<Head(commands)>>),
             Tail(commands))

\* Paste: one sub-event; acc is [rl, signal] with signal the latest_signal
paste_event(acc, event) ==
    IF event.t = "Edit"
    THEN [acc EXCEPT !.rl = paste_commands(@, event.cmds)]
    ELSE handle_editor_event(acc.rl, event)

RECURSIVE paste_events(_, _)
paste_events(acc, events) ==
    IF events = <<>> THEN acc
    ELSE paste_events(paste_event(acc, Head(events)), Tail(events))

\* Multiple: try_fold keeps the result of the last sub-event
multiple_event(acc, event) == handle_editor_event(acc.rl, event)

RECURSIVE multiple_events(_, _)
multiple_events(acc, events) ==
    IF events = <<>> THEN acc
    ELSE multiple_events(multiple_event(acc, Head(events)), Tail(events))

handle_editor_event(rl, event) ==
    CASE event.t = "HandleTab" ->
           IF current_hint(rl) # <<>> /\ rl.input_mode = "Regular"
           THEN Ok(run_edit_commands([rl EXCEPT !.editor = clear_to_end(@)],
                                   <<InsertString(current_hint(rl))>>), NoSignal)
           ELSE Ok([rl EXCEPT !.editor.line_buffer = tab_handler_handle(@)], NoSignal)
      [] event.t = "CtrlD" ->
           IF is_empty(rl.editor)
           THEN Ok([rl EXCEPT !.editor = reset_undo_stack(@)], Signal("CtrlD"))
           ELSE Ok(run_edit_commands(rl, <<Cmd("Delete")>>), NoSignal)
      [] event.t = "CtrlC" ->
           LET r1 == run_edit_commands(rl, <<Cmd("Clear")>>)
           IN  Ok([r1 EXCEPT !.editor = reset_undo_stack(@)], Signal("CtrlC"))
      [] event.t = "ClearScreen" -> Ok(rl, Signal("CtrlL"))
      [] event.t = "Enter" ->
           LET buffer == get_buffer(rl.editor)
           IN  IF validate(buffer) = "Complete"
               THEN LET r1 == run_edit_commands(append_to_history(rl), <<Cmd("Clear")>>)
                    IN  Ok([r1 EXCEPT !.editor = reset_undo_stack(@)], Success(buffer))
               ELSE Ok(run_edit_commands(rl, <<InsertChar(NL)>>), NoSignal)
      [] event.t = "Edit" -> Ok(run_edit_commands(rl, event.cmds), NoSignal)
      [] event.t = "Resize" ->
           Ok([rl EXCEPT !.painter = handle_resize(@, event.size)], NoSignal)
      [] event.t = "PreviousHistory" -> Ok(previous_history(rl), NoSignal)
      [] event.t = "NextHistory" -> Ok(next_history(rl), NoSignal)
      [] event.t = "Up" -> Ok(up_command(rl), NoSignal)
      [] event.t = "Down" -> Ok(down_command(rl), NoSignal)
      [] event.t = "SearchHistory" ->
           Ok(enter_history_search([rl EXCEPT !.editor = remember_undo_state(@, TRUE)]),
              NoSignal)
      [] event.t = "Paste" -> paste_events(Ok(rl, NoSignal), event.evs)
      [] event.t = "Multiple" -> multiple_events(Ok(rl, NoSignal), event.evs)
      [] OTHER -> Ok(rl, NoSignal)

\* handle_event without the test of input_mode
handle_event_editing(rl, event) == handle_editor_event(rl, event)

handle_event(rl, event) ==
    IF rl.input_mode = "HistorySearch"
    THEN handle_history_search_event(rl, event)
    ELSE handle_editor_event(rl, event)

\* ----------------------------------------------------------- completion

\* Span::new: the assertion end >= start, else the Span
Span_new_unchecked(start, end) == [panicked |-> FALSE, start |-> start, end |-> end]

Span_new(start, end) ==
    IF end >= start
    THEN [panicked |-> FALSE, start |-> start, end |-> end]
    ELSE [panicked |-> TRUE, start |-> 0, end |-> 0]

\* the characters of words and lines, in the order of their code points
CharOrder == <<" ", "-", "a", "b">>
CharIndex(c) == CHOOSE k \in 1..Len(CharOrder) : CharOrder[k] = c

is_alphanumeric(c) == c \in {"a", "b"}
is_whitespace(c) == c = " "

\* str < str: the order of Vec<String>::sort
RECURSIVE str_lt(_, _)
str_lt(s, t) ==
    IF t = <<>> THEN FALSE
    ELSE IF s = <<>> THEN TRUE
    ELSE IF Head(s) = Head(t) THEN str_lt(Tail(s), Tail(t))
    ELSE CharIndex(Head(s)) < CharIndex(Head(t))

\* CompletionNode: the tree as the set of the paths of its nodes (the root is
\* the empty path) and the set of the paths of its leaf-marked nodes
CompletionNode_new == [nodes |-> {<<>>}, leaves |-> {}]

\* CompletionNode::insert from the node at path p
RECURSIVE node_insert(_, _, _, _)
node_insert(root, inclusions, p, iter) ==
    IF iter # <<>>
         /\ (Head(iter) \in inclusions \/ is_alphanumeric(Head(iter))
               \/ is_whitespace(Head(iter)))
    THEN node_insert([root EXCEPT !.nodes = @ \cup {Append(p, Head(iter))}],
                     inclusions, Append(p, Head(iter)), Tail(iter))
    ELSE [root EXCEPT !.leaves = @ \cup {p}]

\* CompletionNode::collect from the node at path p
RECURSIVE node_collect(_, _, _)
RECURSIVE node_collect_subnodes(_, _, _, _)
node_collect(root, p, partial) ==
    (IF p \in root.leaves THEN <<partial>> ELSE <<>>)
        \o node_collect_subnodes(root, p, partial, 1)

node_collect_subnodes(root, p, partial, k) ==
    IF k > Len(CharOrder) THEN <<>>
    ELSE (IF Append(p, CharOrder[k]) \in root.nodes
          THEN node_collect(root, Append(p, CharOrder[k]), Append(partial, CharOrder[k]))
          ELSE <<>>)
             \o node_collect_subnodes(root, p, partial, k + 1)

\* CompletionNode::complete from the node at path p
RECURSIVE node_complete(_, _, _)
node_complete(root, p, iter) ==
    IF iter = <<>> THEN Some(node_collect(root, p, <<>>))
    ELSE IF Append(p, Head(iter)) \in root.nodes
         THEN node_complete(root, Append(p, Head(iter)), Tail(iter))
         ELSE None

\* DefaultCompleter::default, with_inclusions
DefaultCompleter_default ==
    [root |-> CompletionNode_new, min_word_len |-> 2, inclusions |-> {}]
with_inclusions(incl) == [DefaultCompleter_default EXCEPT !.inclusions = incl]

\* DefaultCompleter::insert
RECURSIVE insert(_, _)
insert(dc, words) ==
    IF words = <<>> THEN dc
    ELSE insert(IF Len(Head(words)) >= dc.min_word_len
                THEN [dc EXCEPT !.root = node_insert(@, dc.inclusions, <<>>, Head(words))]
                ELSE dc,
                Tail(words))

\* DefaultCompleter::clear, CompletionNode::clear: self.subnodes.clear()
clear_tree(dc) ==
    [dc EXCEPT !.root = [nodes |-> {<<>>}, leaves |-> @.leaves \cap {<<>>}]]

\* DefaultCompleter::word_count, CompletionNode::word_count
word_count(dc) == Cardinality(dc.root.leaves)

\* DefaultCompleter::size, CompletionNode::subnode_count
size(dc) == Cardinality(dc.root.nodes)

\* str::split(' ')
RECURSIVE split(_)
split(s) ==
    IF \A i \in 1..Len(s) : s[i] # " " THEN <<s>>
    ELSE LET i == CHOOSE i \in 1..Len(s) : s[i] = " " /\ \A j \in 1..(i - 1) : s[j] # " "
         IN  <<Take(s, i - 1)>> \o split(Drop(s, i))

rev(s) == [i \in 1..Len(s) |-> s[Len(s) + 1 - i]]

\* Vec::dedup
RECURSIVE dedup(_)
dedup(s) ==
    IF Len(s) < 2 THEN s
    ELSE IF s[Len(s)] = s[Len(s) - 1] THEN dedup(Take(s, Len(s) - 1))
    ELSE Append(dedup(Take(s, Len(s) - 1)), s[Len(s)])

\* complete keeping every completion
filter_none(t) == TRUE

\* complete, the closure of .filter
filter_longer(t) == Len(t.replacement) > t.span.end - t.span.start

\* complete, the closure of .map: Span::new(pos - span_line.len() -
\* span_line_whitespaces, pos); the subtraction below zero overflows, which
\* panics there or in Span::new
map_extension(span_line, span_line_whitespaces, pos, ext) ==
    [span |-> IF pos - Len(span_line) - span_line_whitespaces < 0
              THEN Span_new(pos + 1, pos)
              ELSE Span_new(pos - Len(span_line) - span_line_whitespaces, pos),
     replacement |-> span_line \o ext]

\* complete, the loop over the pieces of line[0..pos], last piece first; acc
\* is [span_line, span_line_whitespaces, completions]
RECURSIVE complete_loop(_, _, _, _)
complete_loop(dc, pos, acc, splitted) ==
    IF splitted = <<>> THEN acc
    ELSE LET s == Head(splitted)
             span_line == IF acc.span_line = <<>> THEN s
                          ELSE s \o <<" ">> \o acc.span_line
             found == node_complete(dc.root, <<>>, span_line)
             extensions == SortSeq(found.v, str_lt)
             mapped == [i \in 1..Len(extensions) |->
                          map_extension(span_line, acc.span_line_whitespaces, pos,
                                        extensions[i])]
         IN  IF s = <<>>
             THEN complete_loop(dc, pos,
                                [acc EXCEPT !.span_line_whitespaces = @ + 1],
                                Tail(splitted))
             ELSE complete_loop(dc, pos,
                                [acc EXCEPT !.span_line = span_line,
                                            !.completions =
                                                IF found.some
                                                THEN @ \o SelectSeq(mapped, filter_longer)
                                                ELSE @],
                                Tail(splitted))

\* DefaultCompleter::complete: [panicked, completions]
complete(dc, line, pos) ==
    LET acc == IF line = <<>>
               THEN [span_line |-> <<>>, span_line_whitespaces |-> 0, completions |-> <<>>]
               ELSE complete_loop(dc, pos,
                                  [span_line |-> <<>>, span_line_whitespaces |-> 0,
                                   completions |-> <<>>],
                                  rev(split(Take(line, pos))))
    IN  [panicked |-> \E i \in 1..Len(acc.completions) : acc.completions[i].span.panicked,
         completions |-> dedup(acc.completions)]

\* ------------------------------------------------------------- repaints
\* What the handlers do on the terminal: the sequence of the terminal
\* operations a handler makes, each [kind, rl, mode, hinter, hint]: the kind
\* of operation (the repaints "full", "buffer", "search" and "wrap", and
\* "adjust" and "crlf"), the engine as it is when the operation is made, its
\* input mode, whether the Hinter was asked for a hint, and the hint.

\* HistoryCompleter::complete: the newest entry that starts with line[0..pos]
history_complete(entries, line, pos) ==
    LET hits == SelectSeq(entries, LAMBDA hist : starts_with(hist, Take(line, pos)))
    IN  IF line = <<>> \/ hits = <<>> THEN <<>>
        ELSE <<[span |-> [start |-> pos, end |-> Len(line)],
                replacement |-> Drop(hits[Len(hits)], pos)]>>

\* str::replace("\n", "\r\n")
RECURSIVE replace_nl(_)
replace_nl(s) ==
    IF s = <<>> THEN <<>>
    ELSE (IF Head(s) = NL THEN <<"\r", NL>> ELSE <<Head(s)>>) \o replace_nl(Tail(s))

\* DefaultHinter = [completer, history, inside_line, current_hint]
DefaultHinter ==
    [completer |-> None, history |-> FALSE, inside_line |-> FALSE, current_hint |-> <<>>]

with_inside_line(h) == [h EXCEPT !.inside_line = TRUE]
with_completer(h, dc) == [h EXCEPT !.completer = Some(dc)]
with_history(h) == [h EXCEPT !.history = TRUE]

\* String::replace_range(0..n, ""): a range that ends past the string panics
replace_range(hint, n) ==
    IF n <= Len(hint)
    THEN [panicked |-> FALSE, hint |-> Drop(hint, n)]
    ELSE [panicked |-> TRUE, hint |-> hint]

\* DefaultHinter::handle without ANSI colouring: [panicked, hinter, output],
\* the hinter as the call leaves it and the string it returns
handle(h, line, pos, history) ==
    LET none == [panicked |-> FALSE, hinter |-> [h EXCEPT !.current_hint = <<>>],
                 output |-> <<>>]
    IN  IF pos = Len(line) \/ h.inside_line
        THEN LET found == IF h.completer.some THEN complete(h.completer.v, line, pos)
                          ELSE [panicked |-> FALSE,
                                completions |-> IF h.history
                                                THEN history_complete(history.entries, line, pos)
                                                ELSE <<>>]
             IN  IF found.panicked
                 THEN [panicked |-> TRUE, hinter |-> h, output |-> <<>>]
                 ELSE IF found.completions # <<>>
                 THEN LET span == found.completions[1].span
                          cut == replace_range(found.completions[1].replacement,
                                               span.end - span.start)
                          hint == replace_nl(cut.hint)
                      IN  IF cut.panicked
                          THEN [panicked |-> TRUE, hinter |-> h, output |-> <<>>]
                          ELSE [panicked |-> FALSE,
                                hinter |-> [h EXCEPT !.current_hint = hint],
                                output |-> hint]
                 ELSE none
        ELSE none

\* DefaultHinter::handle of a hinter without completer, as the engine's
\* repaints use it: the string it returns
hinter_handle(h, line, pos, history) ==
    IF pos = Len(line) \/ h.inside_line
    THEN LET completions == IF h.history
                            THEN history_complete(history.entries, line, pos)
                            ELSE <<>>
         IN  IF completions # <<>>
             THEN replace_nl(Drop(completions[1].replacement,
                                  completions[1].span.end - completions[1].span.start))
             ELSE <<>>
    ELSE <<>>

\* prepare_buffer_content asking the Hinter in every mode
prepare_buffer_content_hinting(h, rl) ==
    [hinter |-> TRUE,
     hint |-> hinter_handle(h, get_buffer(rl.editor), offset(rl.editor), rl.history)]

\* prepare_buffer_content, the hint: (called, hint)
prepare_buffer_content(h, rl) ==
    IF rl.input_mode = "Regular"
    THEN [hinter |-> TRUE,
          hint |-> hinter_handle(h, get_buffer(rl.editor), offset(rl.editor),
                                 rl.history)]
    ELSE [hinter |-> FALSE, hint |-> <<>>]

\* a terminal operation that prepares no buffer content
Io(kind, rl) ==
    [kind |-> kind, rl |-> rl, mode |-> rl.input_mode, hinter |-> FALSE, hint |-> <<>>]

\* a repaint of the engine, whose hinter is the one of Reedline::create
Paint(kind, rl) ==
    [Io(kind, rl) EXCEPT !.hinter = prepare_buffer_content(DefaultHinter, rl).hinter,
                         !.hint = prepare_buffer_content(DefaultHinter, rl).hint]

\* Painter::adjust_prompt_position and Painter::print_crlf
adjust_prompt_position(rl) == <<Io("adjust", rl)>>
print_crlf(rl) == <<Io("crlf", rl)>>

\* the repaints among terminal operations: [kind, mode, hinter, hint]
RECURSIVE Repaints(_)
Repaints(ios) ==
    IF ios = <<>> THEN <<>>
    ELSE (IF Head(ios).kind \in {"full", "buffer", "search", "wrap"}
          THEN <<[kind |-> Head(ios).kind, mode |-> Head(ios).mode,
                  hinter |-> Head(ios).hinter, hint |-> Head(ios).hint]>>
          ELSE <<>>) \o Repaints(Tail(ios))

buffer_paint(rl) == <<Paint("buffer", rl)>>

full_repaint(rl) == <<Paint("full", rl)>>

handle_wrap(rl) == <<Paint("wrap", rl)>>

history_search_paint(rl) ==
    IF get_navigation(rl.history).kind = "SubstringSearch"
    THEN <<Io("search", rl)>>
    ELSE <<>>

repaint(rl) ==
    IF rl.input_mode = "HistorySearch" THEN history_search_paint(rl) ELSE buffer_paint(rl)

\* Painter::require_wrapping: the line has reached the width of the terminal
require_wrapping(p, ed) == p.size > 0 /\ Len(get_buffer(ed)) >= p.size

\* run_edit_commands, the loop: an insert is followed by handle_wrap when
\* wrapping is required and by repaint
RECURSIVE painted_by_commands(_, _)
painted_by_commands(rl, commands) ==
    IF commands = <<>> THEN <<>>
    ELSE LET command == Head(commands)
             r1 == [rl EXCEPT !.editor = apply_edit_command(@, command)]
             here == IF command.op \in {"InsertChar", "InsertString"}
                     THEN (IF require_wrapping(r1.painter, r1.editor)
                           THEN handle_wrap(r1) ELSE <<>>) \o repaint(r1)
                     ELSE <<>>
             r2 == [r1 EXCEPT !.editor = apply_undo_behavior(@, command)]
         IN  here \o painted_by_commands(r2, Tail(commands))

painted_by_run_edit_commands(rl, commands) ==
    painted_by_commands(leave_history_traversal(rl), commands)

painted_by_history_search_event(rl, event) ==
    LET r == handle_history_search_event(rl, event).rl
    IN  CASE event.t \in {"Enter", "HandleTab", "Resize"} -> full_repaint(r)
          [] event.t \in {"Edit", "PreviousHistory", "Up", "SearchHistory",
                          "NextHistory", "Down"} -> repaint(r)
          [] event.t = "Repaint" ->
               IF rl.input_mode # "HistorySearch" THEN full_repaint(r) ELSE <<>>
          [] OTHER -> <<>>

RECURSIVE painted_by_editor_event(_, _)

\* the Paste arm, the commands of an Edit sub-event
RECURSIVE painted_by_paste_commands(_, _)
painted_by_paste_commands(rl, commands) ==
    IF commands = <<>> THEN <<>>
    ELSE (IF Head(commands).op = "InsertChar" THEN <<>>
          ELSE painted_by_run_edit_commands(rl, <<Head(commands)>>))
             \o painted_by_paste_commands(paste_commands(rl, <<Head(commands)>>),
                                          Tail(commands))

\* the Paste arm (paste = TRUE) and the Multiple arm, the loop over the
\* sub-events
RECURSIVE painted_by_sub_events(_, _, _)
painted_by_sub_events(paste, rl, events) ==
    IF events = <<>> THEN <<>>
    ELSE LET event == Head(events)
             here == IF paste /\ event.t = "Edit"
                     THEN painted_by_paste_commands(rl, event.cmds)
                     ELSE painted_by_editor_event(rl, event)
             r1 == IF paste THEN paste_event(Ok(rl, NoSignal), event).rl
                   ELSE multiple_event(Ok(rl, NoSignal), event).rl
         IN  here \o painted_by_sub_events(paste, r1, Tail(events))

painted_by_editor_event(rl, event) ==
    LET r == handle_editor_event(rl, event).rl
    IN  CASE event.t \in {"HandleTab", "Resize"} -> full_repaint(r)
          [] event.t \in {"PreviousHistory", "NextHistory", "Up", "Down"} ->
               adjust_prompt_position(r) \o full_repaint(r)
          [] event.t = "CtrlD" ->
               IF is_empty(rl.editor) THEN <<>>
               ELSE painted_by_run_edit_commands(rl, <<Cmd("Delete")>>)
          [] event.t = "CtrlC" -> painted_by_run_edit_commands(rl, <<Cmd("Clear")>>)
          [] event.t = "Enter" ->
               IF validate(get_buffer(rl.editor)) = "Complete"
               THEN painted_by_run_edit_commands(append_to_history(rl), <<Cmd("Clear")>>)
                       \o print_crlf(run_edit_commands(append_to_history(rl),
                                                       <<Cmd("Clear")>>))
               ELSE painted_by_run_edit_commands(rl, <<InsertChar(NL)>>)
                       \o adjust_prompt_position(r) \o full_repaint(r)
          [] event.t = "Edit" ->
               painted_by_run_edit_commands(rl, event.cmds) \o repaint(r)
          [] event.t = "Repaint" ->
               IF rl.input_mode # "HistorySearch" THEN full_repaint(r) ELSE <<>>
          [] event.t = "SearchHistory" -> repaint(r)
          [] event.t = "Paste" ->
               painted_by_sub_events(TRUE, rl, event.evs)
                   \o adjust_prompt_position(r) \o full_repaint(r)
          [] event.t = "Multiple" ->
               painted_by_sub_events(FALSE, rl, event.evs)
                   \o adjust_prompt_position(r) \o full_repaint(r)
          [] OTHER -> <<>>

painted_by_event(rl, event) ==
    IF rl.input_mode = "HistorySearch"
    THEN painted_by_history_search_event(rl, event)
    ELSE painted_by_editor_event(rl, event)

\* read_line_helper before its loop
\* read_line_helper painting the full prompt whatever the mode
painted_by_read_line_in_full(rl) ==
    <<Io("init_terminal_size", rl), Io("initialize_prompt_position", rl)>>
        \o full_repaint(rl)

painted_by_read_line(rl) ==
    <<Io("init_terminal_size", rl), Io("initialize_prompt_position", rl)>>
        \o (IF rl.input_mode = "HistorySearch"
            THEN history_search_paint(rl) ELSE full_repaint(rl))

\* ------------------------------------------------------ key-binding parser
\* A raw terminal event is [k, c]: a character key carrying c, Ctrl-C, or a
\* mouse event.  Emacs::parse_event maps it to a ReedlineEvent.

Raw(k, c) == [k |-> k, c |-> c]

parse_event(raw) ==
    CASE raw.k = "Char" -> Edit(<<InsertChar(raw.c)>>)
      [] raw.k = "CtrlC" -> Ev("CtrlC")
      [] OTHER -> Ev("Mouse")

\* ---------------------------------------------------- event classification

\* handle_paste: every drained event parsed, in order, inside one Paste
RECURSIVE parse_all(_)
parse_all(raws) ==
    IF raws = <<>> THEN <<>> ELSE <<parse_event(Head(raws))>> \o parse_all(Tail(raws))

\* handle_paste losing the event that opened the burst
handle_paste_after_first(crossterm_events) == Paste(parse_all(Tail(crossterm_events)))

handle_paste(crossterm_events) == Paste(parse_all(crossterm_events))

\* the merge replacing last_edit_commands where the code extends it
merge_step_replacing(acc, parsed) ==
    CASE parsed.t = "Edit" -> [acc EXCEPT !.last = Some(parsed.cmds)]
      [] acc.last.some -> [out |-> acc.out \o <<Edit(acc.last.v), parsed>>, last |-> None]
      [] OTHER -> [acc EXCEPT !.out = Append(@, parsed)]

\* read_line_helper: the loop merging consecutive Edit events; acc is
\* [out, last]: the events pushed so far and last_edit_commands
merge_step(acc, parsed) ==
    CASE ~acc.last.some /\ parsed.t = "Edit" ->
           [acc EXCEPT !.last = Some(parsed.cmds)]
      [] ~acc.last.some /\ parsed.t # "Edit" ->
           [acc EXCEPT !.out = Append(@, parsed)]
      [] acc.last.some /\ parsed.t = "Edit" ->
           [acc EXCEPT !.last = Some(acc.last.v \o parsed.cmds)]
      [] OTHER ->
           [out |-> acc.out \o <<Edit(acc.last.v), parsed>>, last |-> None]

\* the merge loop taking the drained events newest first
RECURSIVE merge_loop_newest_first(_, _)
merge_loop_newest_first(acc, raws) ==
    IF raws = <<>> THEN acc
    ELSE merge_loop_newest_first(merge_step(acc, parse_event(raws[Len(raws)])),
                                 SubSeq(raws, 1, Len(raws) - 1))

RECURSIVE merge_loop(_, _)
merge_loop(acc, raws) ==
    IF raws = <<>> THEN acc
    ELSE merge_loop(merge_step(acc, parse_event(Head(raws))), Tail(raws))

\* the classification pushing the Resize event after the other events
classify_resize_last(raws, resize) ==
    LET acc == IF Len(raws) > EVENTS_THRESHOLD
               THEN [out |-> <<handle_paste(raws)>>, last |-> None]
               ELSE merge_loop([out |-> <<>>, last |-> None], raws)
        out == IF acc.last.some THEN Append(acc.out, Edit(acc.last.v)) ELSE acc.out
    IN  IF resize # 0 THEN Append(out, Resize(resize)) ELSE out

\* read_line_helper: the reedline_events one drained burst yields
classify(raws, resize) ==
    LET pushed == IF resize # 0 THEN <<Resize(resize)>> ELSE <<>>
        acc == IF Len(raws) > EVENTS_THRESHOLD
               THEN [out |-> Append(pushed, handle_paste(raws)), last |-> None]
               ELSE merge_loop([out |-> pushed, last |-> None], raws)
    IN  IF acc.last.some THEN Append(acc.out, Edit(acc.last.v)) ELSE acc.out

\* ---------------------------------------------------------------- state

VARIABLES
    editor,            \* Reedline.editor
    history,           \* Reedline.history
    input_mode,        \* Reedline.input_mode
    painter,           \* Reedline.painter
    panicked,          \* the engine hit todo!()
    crossterm_events,  \* read_line_helper: raw events drained so far
    latest_resize,     \* read_line_helper: 0 for None, else the size
    reedline_events,   \* read_line_helper: classified events to dispatch
    pc,                \* "idle": no read; "poll", "drain", "dispatch", "wrapper": in the loop
    signal,            \* the Signal the last read returned
    wrapper,           \* handle_editor_event: "Paste" or "Multiple" while unwrapping one
    pending,           \* handle_editor_event: the wrapper's sub-events handled so far
    latest_signal,     \* handle_editor_event: latest_signal of the wrapper
    burst,             \* the raw events and resize notifications of the burst, as they arrived
    dispatched,        \* the events handed to handle_event for this burst
    painted,           \* the repaints made since the last event was taken up
    raw_mode,          \* the terminal: "cooked", "raw", or "failed" when disabling failed
    completer,         \* a DefaultCompleter
    hinter,            \* a DefaultHinter
    input,             \* the arguments of the last call of Span::new, complete or handle
    output             \* what the call returned

engine == <<editor, history, input_mode, painter, panicked>>
locals == <<crossterm_events, latest_resize, reedline_events, burst, dispatched>>
unwrapping == <<wrapper, pending, latest_signal>>

terminal == <<painted, raw_mode>>

completion == <<completer, hinter, input, output>>

vars == <<engine, locals, unwrapping, pc, signal, terminal, completion>>

Self == [editor |-> editor, history |-> history, input_mode |-> input_mode,
         painter |-> painter, panicked |-> panicked]

\* Reedline::create()
Create(entries) ==
    /\ editor = NewEditor
    /\ history = NewHistory(entries)
    /\ input_mode = "Regular"
    /\ painter = [size |-> 0]
    /\ panicked = FALSE

\* histories the session may start with (with_history)
InitHistories == {<<>>, << <<"a", "a">>, <<"(">>, <<"a">> >>}

Init ==
    /\ \E entries \in InitHistories : Create(entries)
    /\ crossterm_events = <<>>
    /\ latest_resize = 0
    /\ reedline_events = <<>>
    /\ pc = "idle"
    /\ signal = NoSignal
    /\ wrapper = ""
    /\ pending = 0
    /\ latest_signal = NoSignal
    /\ burst = <<>>
    /\ dispatched = <<>>
    /\ painted = <<>>
    /\ raw_mode = "cooked"
    /\ completer = DefaultCompleter_default
    /\ hinter = DefaultHinter
    /\ input = <<>>
    /\ output = <<>>

\* ------------------------------------------------------------- inputs

Sizes == {1, 2}

EditCommands ==
    {InsertChar(c) : c \in Chars}
        \cup {Cmd(op) : op \in {"Backspace", "Delete", "MoveLeft", "Undo"}}

EditBatches ==
    {<<c>> : c \in EditCommands}
        \cup {<<Cmd("MoveLeft"), InsertChar("a")>>, <<InsertChar("a"), InsertChar("a")>>}

\* events that are not wrappers
TopEvents ==
    {Ev(t) : t \in {"HandleTab", "CtrlD", "CtrlC", "ClearScreen", "Enter", "Mouse",
                    "Repaint", "PreviousHistory", "NextHistory", "Up", "Down",
                    "SearchHistory", "None"}}
        \cup {Edit(b) : b \in EditBatches}

\* sub-events of a wrapper
SubEvents ==
    {Edit(<<InsertChar("a")>>)}
        \cup {Ev(t) : t \in {"CtrlD", "CtrlC", "Enter", "Up", "SearchHistory", "None"}}

WithinBounds(rl) ==
    /\ Len(get_buffer(rl.editor)) <= MaxLen
    /\ Len(rl.editor.edits) <= MaxUndo + 1
    /\ Len(rl.history.entries) - rl.history.len_on_disk <= MaxHist
    /\ Len(rl.history.query.s) <= MaxLen

Becomes(rl) ==
    /\ WithinBounds(rl)
    /\ editor' = rl.editor
    /\ history' = rl.history
    /\ input_mode' = rl.input_mode
    /\ painter' = rl.painter
    /\ panicked' = rl.panicked

\* read_line_helper: `return Ok(signal)` on a Signal, else the loop goes on
Returns(sig) ==
    IF sig.kind # "None"
    THEN signal' = sig /\ pc' = "idle"
    ELSE signal' = signal /\ pc' = "poll"

\* ------------------------------------------------------------- actions

\* read_line / read_line_helper up to the loop
ReadLine ==
    /\ pc = "idle"
    /\ pc' = "poll"
    /\ signal' = NoSignal
    /\ UNCHANGED <<completion, engine, locals, unwrapping, terminal>>

\* one loop iteration on a burst that classifies to the single event `event`
\* (or the poll timing out: Repaint): handle_event, and the return on a Signal
DispatchEvent(event) ==
    /\ pc = "poll"
    /\ \E r \in {handle_event(Self, event)} :
          Becomes(r.rl) /\ Returns(r.signal)
    /\ UNCHANGED <<completion, locals, unwrapping, terminal>>

Dispatch == \E event \in TopEvents : DispatchEvent(event)

\* handle_editor_event, the loop of the Paste and Multiple arms, after one
\* sub-event left the engine as r.rl with r.signal as latest_signal: after the
\* last sub-event the arm ends with Ok(latest_signal), which read_line_helper
\* returns if it is a Signal
Unwrapped(t, r) ==
    /\ Becomes(r.rl)
    /\ \/ Returns(r.signal) /\ wrapper' = "" /\ pending' = 0 /\ latest_signal' = NoSignal
       \/ /\ pending + 1 < MaxSub
          /\ pc' = "wrapper"
          /\ wrapper' = t
          /\ pending' = pending + 1
          /\ latest_signal' = r.signal
          /\ signal' = signal

\* a Paste or Multiple event reaches handle_event: HistorySearch ignores it,
\* handle_editor_event starts on its sub-events, of which `event` is the
\* first.  The sub-events are drawn one by one as the loop reaches them.  A
\* Paste holds more than EVENTS_THRESHOLD sub-events: all but MaxSub of them
\* are keys without a binding, parsed to None, which change nothing.
Unwrap(t, event) ==
    /\ pc = "poll"
    /\ IF input_mode = "HistorySearch"
       THEN UNCHANGED <<engine, pc, signal, unwrapping>>
       ELSE \E r \in {IF t = "Paste"
                      THEN paste_event(Ok(Self, NoSignal), event)
                      ELSE multiple_event(Ok(Self, NoSignal), event)} :
               Unwrapped(t, r)
    /\ UNCHANGED <<completion, locals, terminal>>

DispatchWrapper ==
    \E t \in {"Paste", "Multiple"}, event \in SubEvents : Unwrap(t, event)

\* the wrapper's next sub-event is `event`
SubEventStep(event) ==
    /\ pc = "wrapper"
    /\ \E r \in {IF wrapper = "Paste"
                 THEN paste_event(Ok(Self, latest_signal), event)
                 ELSE multiple_event(Ok(Self, latest_signal), event)} :
          Unwrapped(wrapper, r)
    /\ UNCHANGED <<completion, locals, terminal>>

SubEvent == \E event \in SubEvents : SubEventStep(event)

Next == ReadLine \/ Dispatch \/ DispatchWrapper \/ SubEvent

Spec == Init /\ [][Next]_vars

\* ------------------------------------------------- the burst specification
\* One read on a fresh engine draining one burst of up to MaxBurst raw events
\* and resize notifications, classifying it and dispatching the result.  The
\* n-th key of a burst carries the n-th character of Keys, so that the events
\* of a burst are pairwise distinct.  At most MaxSpecial events of the burst
\* are other than character keys.

RawKinds == {"Char", "CtrlC", "Mouse"}

Keys == <<"b", "c", "d", "e", "f", "g", "h", "i", "j", "k", "l", "m", "n">>

Notifications == {i \in 1..Len(burst) : burst[i].k = "Resize"}

Specials == {i \in 1..Len(burst) : burst[i].k # "Char"}

BurstInit ==
    /\ Create(<<>>)
    /\ crossterm_events = <<>>
    /\ latest_resize = 0
    /\ reedline_events = <<>>
    /\ pc = "poll"
    /\ signal = NoSignal
    /\ wrapper = ""
    /\ pending = 0
    /\ latest_signal = NoSignal
    /\ burst = <<>>
    /\ dispatched = <<>>
    /\ painted = <<>>
    /\ raw_mode = "cooked"
    /\ completer = DefaultCompleter_default
    /\ hinter = DefaultHinter
    /\ input = <<>>
    /\ output = <<>>

\* event::read() of a resize notification: only the latest is kept
ReadResize ==
    /\ pc \in {"poll", "drain"}
    /\ dispatched = <<>>
    /\ Cardinality(Specials) < MaxSpecial
    /\ \E xy \in Sizes :
          /\ latest_resize' = xy
          /\ burst' = Append(burst, Raw("Resize", xy))
    /\ pc' = "drain"
    /\ UNCHANGED <<completion, engine, unwrapping, crossterm_events, reedline_events, signal,
                   dispatched, terminal>>

\* event::read() of any other event: pushed to crossterm_events
ReadKey ==
    /\ pc \in {"poll", "drain"}
    /\ dispatched = <<>>
    /\ Len(crossterm_events) < MaxBurst
    /\ \E k \in (IF Cardinality(Specials) < MaxSpecial THEN RawKinds ELSE {"Char"}) :
          \E raw \in {Raw(k, Keys[Len(crossterm_events) + 1])} :
             /\ crossterm_events' = Append(crossterm_events, raw)
             /\ burst' = Append(burst, raw)
    /\ pc' = "drain"
    /\ UNCHANGED <<completion, engine, unwrapping, latest_resize, reedline_events, signal,
                   dispatched, terminal>>

\* no further event within POLL_WAIT: the burst is classified
Classify ==
    /\ pc = "drain"
    /\ reedline_events' = classify(crossterm_events, latest_resize)
    /\ crossterm_events' = <<>>
    /\ pc' = "dispatch"
    /\ UNCHANGED <<completion, engine, unwrapping, latest_resize, signal, burst, dispatched,
                   terminal>>

\* the loop over reedline_events.drain(..): handle_event on the next event;
\* a Signal ends the read and drops the events left
BurstDispatch ==
    /\ pc = "dispatch"
    /\ reedline_events # <<>>
    /\ \E r \in {handle_event(Self, Head(reedline_events))} :
          /\ editor' = r.rl.editor
          /\ history' = r.rl.history
          /\ input_mode' = r.rl.input_mode
          /\ painter' = r.rl.painter
          /\ panicked' = r.rl.panicked
          /\ IF r.signal.kind # "None"
             THEN signal' = r.signal /\ pc' = "idle" /\ reedline_events' = <<>>
             ELSE /\ signal' = signal
                  /\ reedline_events' = Tail(reedline_events)
                  /\ pc' = IF Tail(reedline_events) = <<>> THEN "poll" ELSE "dispatch"
    /\ dispatched' = Append(dispatched, Head(reedline_events))
    /\ UNCHANGED <<completion, unwrapping, crossterm_events, latest_resize, burst, terminal>>

BurstNext == ReadResize \/ ReadKey \/ Classify \/ BurstDispatch

SpecBurst == BurstInit /\ [][BurstNext]_vars

\* ---------------------------------------------- properties of a burst

IsKeystroke(raw) == raw.k # "Resize"
IsNotResize(event) == event.t # "Resize"

\* the non-resize raw events of the burst, in arrival order
Keystrokes == SelectSeq(burst, IsKeystroke)

\* what the key-binding parser makes of them
Parsed == [i \in 1..Len(Keystrokes) |-> parse_event(Keystrokes[i])]

SameEvents(a, b) == Len(a) = Len(b) /\ \A i \in 1..Len(a) : a[i] = b[i]

Pastes(events) == {i \in 1..Len(events) : events[i].t = "Paste"}
Resizes(events) == {i \in 1..Len(events) : events[i].t = "Resize"}

\* the burst has just been classified: reedline_events is what was emitted
Classified == pc = "dispatch" /\ dispatched = <<>>

\* the burst has been handled: the loop over reedline_events is over
Drained == pc \in {"poll", "idle"} /\ dispatched # <<>>

\* the size the last resize notification of the burst carried
LastNotification ==
    burst[CHOOSE i \in Notifications : \A j \in Notifications : j <= i].c

\* a sequence of parsed events with every maximal run of Edit events merged
\* into one Edit event holding the run's commands in order
RECURSIVE MergeRuns(_)
MergeRuns(events) ==
    IF events = <<>> THEN <<>>
    ELSE LET rest == MergeRuns(Tail(events))
         IN  IF Head(events).t = "Edit" /\ rest # <<>> /\ Head(rest).t = "Edit"
             THEN <<Edit(Head(events).cmds \o Head(rest).cmds)>> \o Tail(rest)
             ELSE <<Head(events)>> \o rest

\* C1: a burst of more than 10 non-resize raw events is emitted as exactly one
\* Paste event holding every parsed raw event in arrival order, and nothing
\* else but the Resize event is emitted; a burst of 10 or fewer emits no Paste.
C1_PasteDetection ==
    Classified =>
        IF Len(Keystrokes) > 10
        THEN /\ Cardinality(Pastes(reedline_events)) = 1
             /\ \A i \in Pastes(reedline_events) :
                    SameEvents(reedline_events[i].evs, Parsed)
             /\ \A i \in 1..Len(reedline_events) :
                    reedline_events[i].t \in {"Paste", "Resize"}
        ELSE Pastes(reedline_events) = {}

\* a burst of 11 keys, not all of them character keys, emitted as a Paste
C1_Witness ==
    /\ Classified
    /\ Len(Keystrokes) = 11
    /\ Pastes(reedline_events) # {}
    /\ \E i \in 1..Len(Keystrokes) : Keystrokes[i].k = "Mouse"

\* C2: a burst with resize notifications dispatches exactly one Resize event,
\* carrying the size of the last notification, and the painter has taken that
\* size once the burst is handled; a burst without one dispatches no Resize.
C2_ResizeCoalescing ==
    /\ Cardinality(Resizes(dispatched)) <= 1
    /\ Drained =>
          IF Notifications = {}
          THEN Resizes(dispatched) = {} /\ painter.size = 0
          ELSE /\ Cardinality(Resizes(dispatched)) = 1
               /\ \A i \in Resizes(dispatched) : dispatched[i].size = LastNotification
               /\ painter.size = LastNotification

\* two notifications of different sizes, a key between them, all handled
C2_Witness ==
    /\ Drained
    /\ Cardinality(Notifications) = 2
    /\ \E i \in Notifications : burst[i].c # LastNotification
    /\ \E i, j \in Notifications : \E n \in (i + 1)..(j - 1) : burst[n].k = "Char"
    /\ painter.size = LastNotification

\* C3 as stated: once a burst of 10 or fewer keys is handled, the events
\* dispatched besides the Resize are the parsed events with every maximal run
\* of edit batches merged: none dropped, none duplicated, in arrival order.
C3_EditBatchMerging ==
    Drained /\ Len(Keystrokes) <= 10 =>
        SameEvents(SelectSeq(dispatched, IsNotResize), MergeRuns(Parsed))

\* C3 amended: the events emitted for a burst of 10 or fewer keys are the
\* parsed events with every maximal run of edit batches merged; they are
\* dispatched in that order up to the first one that produces a Signal, and
\* those after it are not dispatched.
C3_MergingUpToSignal ==
    Len(Keystrokes) <= 10 =>
        /\ pc = "dispatch" =>
              SameEvents(SelectSeq(dispatched \o reedline_events, IsNotResize),
                         MergeRuns(Parsed))
        /\ Drained =>
              LET done == SelectSeq(dispatched, IsNotResize)
                  all == MergeRuns(Parsed)
              IN  /\ Len(done) <= Len(all)
                  /\ SameEvents(done, SubSeq(all, 1, Len(done)))
                  /\ pc = "poll" => Len(done) = Len(all)
                  /\ pc = "idle" => signal.kind # "None"

\* two keys merged into one batch, a non-edit event, then another batch
C3_Witness ==
    /\ Drained
    /\ pc = "poll"
    /\ \E i, j, k \in 1..Len(dispatched) :
          /\ i < j /\ j < k
          /\ dispatched[i].t = "Edit" /\ Len(dispatched[i].cmds) = 2
          /\ dispatched[j].t = "Mouse"
          /\ dispatched[k].t = "Edit"

\* the parsed events a sequence of dispatched events stands for: a Paste is
\* the events it holds, a merged Edit is one Edit for each of its commands
RECURSIVE Unmerged(_)
Unmerged(events) ==
    IF events = <<>> THEN <<>>
    ELSE LET e == Head(events)
         IN  (CASE e.t = "Paste" -> Unmerged(e.evs)
                [] e.t = "Edit" -> [i \in 1..Len(e.cmds) |-> Edit(<<e.cmds[i]>>)]
                [] OTHER -> <<e>>) \o Unmerged(Tail(events))

\* C32: within one burst the non-resize events are dispatched in their arrival
\* order (what has been dispatched is always a prefix of the parsed keys), and
\* the one coalesced Resize event is dispatched before all of them, also before
\* keys that arrived before the resize notification.
C32_ResizePlacement ==
    LET done == Unmerged(SelectSeq(dispatched, IsNotResize))
    IN  /\ Len(done) <= Len(Parsed)
        /\ SameEvents(done, SubSeq(Parsed, 1, Len(done)))
        /\ \A i \in Resizes(dispatched) : i = 1
        /\ Notifications # {} /\ dispatched # <<>> => dispatched[1].t = "Resize"
        /\ Drained /\ pc = "poll" => Len(done) = Len(Parsed)

\* a key, then a resize notification, then a different key: all dispatched,
\* the Resize first and the two keys in their arrival order
C32_Witness ==
    /\ Drained
    /\ pc = "poll"
    /\ Len(burst) >= 3
    /\ burst[1].k = "Char" /\ burst[2].k = "Resize" /\ burst[3].k # "Resize"
    /\ burst[3] # burst[1]
    /\ dispatched[1].t = "Resize"
    /\ Len(dispatched) >= 2

\* --------------------------------------------- properties of the engine

\* handle_editor_event may run next: on a top-level event outside
\* HistorySearch, or on a sub-event of the wrapper being unwrapped
Editing == pc = "wrapper" \/ (pc = "poll" /\ input_mode # "HistorySearch")

\* what the handler that runs next makes of `event`
Handled(event) ==
    IF pc = "wrapper" THEN handle_editor_event(Self, event) ELSE handle_event(Self, event)

UndoReset(ed) == ed.edits = <<EmptyLineBuffer>>

\* C4, the handler: a submit handled outside HistorySearch on a buffer the
\* Validator finds Complete appends the text to the history once, clears the
\* buffer, resets the undo stack, leaves the mode Regular and yields the
\* success Signal carrying the text.
C4_SubmitHandled ==
    Editing /\ input_mode # "HistorySearch"
            /\ validate(get_buffer(editor)) = "Complete" =>
        LET r == handle_editor_event(Self, Ev("Enter"))
        IN  /\ r.rl.history.entries = Append(history.entries, get_buffer(editor))
            /\ is_empty(r.rl.editor)
            /\ UndoReset(r.rl.editor)
            /\ r.rl.input_mode = "Regular"
            /\ r.signal = Success(get_buffer(editor))

\* C4, the read: once a submit handled outside HistorySearch has yielded the
\* success Signal, the read returns that Signal.
C4_SubmitReturned ==
    pc = "wrapper" /\ latest_signal.kind = "Success" /\ input_mode # "HistorySearch" =>
        pc' = "idle" /\ signal' = latest_signal

\* C4: a valid submit outside HistorySearch appends once, clears, resets the
\* undo stack, leaves the mode Regular, and the read returns the success
\* Signal with the text the buffer held.
C4_SubmitValid == [](C4_SubmitHandled) /\ [][C4_SubmitReturned]_vars

\* C5: only a submit on a buffer the Validator finds Complete yields a success
\* Signal; a submit on an Incomplete buffer inserts a newline at the cursor,
\* yields no Signal, appends nothing to the history, does not clear the
\* buffer, and leaves a Regular mode Regular.
C5_ValidatorGate ==
    /\ pc \in {"poll", "wrapper"} =>
          \A event \in TopEvents \cup SubEvents :
              Handled(event).signal.kind = "Success" =>
                  /\ event.t = "Enter"
                  /\ validate(get_buffer(editor)) = "Complete"
    /\ Editing /\ validate(get_buffer(editor)) = "Incomplete" =>
          LET r == handle_editor_event(Self, Ev("Enter"))
          IN  /\ r.signal = NoSignal
              /\ r.rl.history.entries = history.entries
              /\ ~is_empty(r.rl.editor)
              /\ offset(r.rl.editor) > 0
              /\ get_buffer(r.rl.editor)[offset(r.rl.editor)] = NL
              /\ input_mode = "Regular" =>
                    /\ r.rl.editor.line_buffer = insert_char(editor, NL).line_buffer
                    /\ r.rl.input_mode = "Regular"

\* a rejected submit has acted: an unclosed bracket followed by the newline
\* it inserted, no Signal, the history as it was loaded
C5_Witness ==
    /\ pc = "poll"
    /\ input_mode = "Regular"
    /\ get_buffer(editor) = <<"(", NL>>
    /\ signal = NoSignal
    /\ Len(history.entries) = history.len_on_disk

\* C6: an event carrying an edit command, handled in HistoryTraversal, never
\* leaves the mode HistoryTraversal: a top-level edit batch, an edit batch
\* inside a multi-event wrapper, an insert inside a paste wrapper.
C6_TraversalDemotion ==
    pc \in {"poll", "wrapper"} /\ input_mode = "HistoryTraversal" =>
        \A b \in EditBatches :
            /\ handle_editor_event(Self, Edit(b)).rl.input_mode # "HistoryTraversal"
            /\ multiple_event(Ok(Self, latest_signal), Edit(b)).rl.input_mode
                   # "HistoryTraversal"
            /\ paste_event(Ok(Self, latest_signal), Edit(b)).rl.input_mode
                   # "HistoryTraversal"

\* the active query's current result, or the buffer the traversal started
\* from when the history has no entry at its cursor
Recalled ==
    LET at == string_at_cursor(history)
        q == get_navigation(history)
    IN  IF at.some THEN at.v
        ELSE IF q.kind = "Normal" THEN q.original.lines ELSE q.s

\* C7: an edit command applied in HistoryTraversal leaves the buffer holding
\* what the command makes of the recalled line (wherever in that line the
\* cursor is), under a Normal and under a PrefixSearch query.
C7_TraversalMaterialization ==
    pc \in {"poll", "wrapper"} /\ input_mode = "HistoryTraversal"
                              /\ get_navigation(history).kind # "SubstringSearch" =>
        \A c \in EditCommands :
            get_buffer(run_edit_commands(Self, <<c>>).editor) \in
                {get_buffer(apply_edit_command(
                     set_line_buffer(editor, LineBuffer(Recalled, p)), c)) :
                   p \in 0..Len(Recalled)}

\* C8, the handler: in Regular mode an EOF-interrupt on an empty buffer yields
\* the end-of-input Signal and resets the undo stack; on a non-empty buffer
\* it deletes the character at the cursor, yields no Signal and leaves the
\* mode Regular.
C8_EofHandled ==
    Editing /\ input_mode = "Regular" =>
        LET r == handle_editor_event(Self, Ev("CtrlD"))
        IN  IF is_empty(editor)
            THEN r.signal = Signal("CtrlD") /\ UndoReset(r.rl.editor)
            ELSE /\ r.rl.editor.line_buffer = delete(editor).line_buffer
                 /\ r.signal = NoSignal
                 /\ r.rl.input_mode = "Regular"

\* C8, the read: once an EOF-interrupt handled in Regular mode has yielded the
\* end-of-input Signal, the read returns that Signal.
C8_EofReturned ==
    pc = "wrapper" /\ latest_signal.kind = "CtrlD" /\ input_mode = "Regular" =>
        pc' = "idle" /\ signal' = latest_signal

\* C8: in Regular mode an EOF-interrupt on an empty buffer makes the read
\* return the end-of-input Signal with the undo stack reset; on a non-empty
\* buffer it deletes forward, without a Signal, and the mode stays Regular.
C8_EofRegular == [](C8_EofHandled) /\ [][C8_EofReturned]_vars

\* C9: in HistorySearch with an empty search string an EOF-interrupt yields
\* the end-of-input Signal and the mode becomes Regular, whatever the buffer.
C9_EofHistorySearch ==
    pc = "poll" /\ input_mode = "HistorySearch"
                /\ get_navigation(history) = SubstringSearch(<<>>) =>
        LET r == handle_event(Self, Ev("CtrlD"))
        IN  r.signal = Signal("CtrlD") /\ r.rl.input_mode = "Regular"

\* C10: when a read has returned a success or an interrupt Signal, the buffer
\* is empty and the undo stack is reset.
C10_SessionReset ==
    pc = "idle" /\ signal.kind \in {"Success", "CtrlC"} =>
        is_empty(editor) /\ UndoReset(editor)

\* C11: a Signal is terminal.  While a paste or multi-event wrapper still has
\* a sub-event to dispatch, none of its sub-events has produced a Signal: the
\* Signal would have ended the dispatch and been returned by the read.
C11_SignalTerminal == pc = "wrapper" => latest_signal = NoSignal

\* C12: an enter-search event handled in Regular mode opens an undo checkpoint
\* holding the buffer, installs SubstringSearch of the empty string as the
\* active query and sets the mode to HistorySearch; the buffer content and the
\* cursor are unchanged and no Signal is produced.
C12_EnterSearch ==
    Editing /\ input_mode = "Regular" =>
        LET r == handle_editor_event(Self, Ev("SearchHistory"))
        IN  /\ r.rl.editor.edits = Append(editor.edits, editor.line_buffer)
            /\ get_navigation(r.rl.history) = SubstringSearch(<<>>)
            /\ r.rl.input_mode = "HistorySearch"
            /\ r.rl.editor.line_buffer = editor.line_buffer
            /\ r.signal = NoSignal

\* the search has been entered on a buffer holding text: the checkpoint on
\* top of the undo stack is that buffer, the needle is empty
C12_Witness ==
    /\ pc = "poll"
    /\ input_mode = "HistorySearch"
    /\ get_navigation(history) = SubstringSearch(<<>>)
    /\ ~is_empty(editor)
    /\ Len(editor.edits) = 2
    /\ editor.edits[2] = editor.line_buffer

HistorySteps == {Ev(t) : t \in {"PreviousHistory", "NextHistory", "Up", "Down"}}

\* a history-step event that reaches previous_history or next_history: Up on
\* the first line of the buffer, Down on its last line, previous and next
StepsHistory(event) ==
    \/ event.t \in {"PreviousHistory", "NextHistory"}
    \/ event.t = "Up" /\ is_cursor_at_first_line(editor)
    \/ event.t = "Down" /\ is_cursor_at_last_line(editor)

\* the History Store stepped once, in the direction of `event`, from the top
\* of the history under the query q
SteppedUnder(q, event) ==
    IF event.t \in {"PreviousHistory", "Up"}
    THEN back(set_navigation(history, q))
    ELSE forward(set_navigation(history, q))

\* C13 as stated: from Regular mode every history-step event, whatever the
\* buffer and the cursor, leaves a Normal or PrefixSearch query installed and
\* the mode HistoryTraversal.
C13_HistoryStep ==
    Editing /\ input_mode = "Regular" =>
        \A event \in HistorySteps :
            LET r == handle_editor_event(Self, event).rl
            IN  /\ r.input_mode = "HistoryTraversal"
                /\ get_navigation(r.history).kind \in {"Normal", "PrefixSearch"}

\* C13: from Regular mode a previous or next event, an up event with the
\* cursor on the first line of the buffer and a down event with the cursor on
\* its last line install a Normal or PrefixSearch query, step the History
\* Store once under it and leave the mode HistoryTraversal; an up or down
\* event elsewhere in a buffer of several lines moves the cursor by a line
\* and leaves the mode, the history and the buffer content as they were.
C13_EnterTraversal ==
    Editing /\ input_mode = "Regular" =>
        \A event \in HistorySteps :
            LET r == handle_editor_event(Self, event)
                q == get_navigation(r.rl.history)
            IN  /\ r.signal = NoSignal
                /\ IF StepsHistory(event)
                   THEN /\ r.rl.input_mode = "HistoryTraversal"
                        /\ q.kind \in {"Normal", "PrefixSearch"}
                        /\ r.rl.history = SteppedUnder(q, event)
                   ELSE /\ r.rl.input_mode = "Regular"
                        /\ r.rl.history = history
                        /\ get_buffer(r.rl.editor) = get_buffer(editor)
                        /\ offset(r.rl.editor) # offset(editor)

\* a traversal has been entered from a buffer holding "a" with the cursor at
\* its end, and the buffer shows an older line found by the step
C13_Witness ==
    /\ pc = "poll"
    /\ input_mode = "HistoryTraversal"
    /\ get_navigation(history) = PrefixSearch(<<"a">>)
    /\ string_at_cursor(history) = Some(get_buffer(editor))

\* C14: a history-step event that starts a traversal installs Normal with a
\* snapshot of the buffer when the buffer is empty or the cursor is not at
\* its end, and otherwise PrefixSearch with the whole buffer content.
C14_QueryEntryRule ==
    Editing /\ input_mode # "HistoryTraversal" =>
        \A event \in HistorySteps :
            StepsHistory(event) =>
                get_navigation(handle_editor_event(Self, event).rl.history) =
                    IF get_buffer(editor) = <<>> \/ offset(editor) # Len(get_buffer(editor))
                    THEN Normal(editor.line_buffer)
                    ELSE PrefixSearch(get_buffer(editor))

\* a traversal started in the middle of a buffer holding text: the query is
\* Normal with that buffer and cursor as its snapshot
C14_Witness ==
    /\ pc = "poll"
    /\ input_mode = "HistoryTraversal"
    /\ get_navigation(history).kind = "Normal"
    /\ get_navigation(history).original.lines # <<>>
    /\ get_navigation(history).original.insertion_point
           < Len(get_navigation(history).original.lines)

\* C15: while the mode is HistoryTraversal a history-step event leaves the
\* active query (the prefix of a PrefixSearch, the snapshot of a Normal) as it
\* is and the mode HistoryTraversal, whatever the buffer shows: no query is
\* installed by a history-step event handled in HistoryTraversal.
C15_PrefixCapturedOnce ==
    pc \in {"poll", "wrapper"} /\ input_mode = "HistoryTraversal" =>
        \A event \in HistorySteps :
            /\ get_navigation(handle_editor_event(Self, event).rl.history)
                   = get_navigation(history)
            /\ handle_editor_event(Self, event).rl.input_mode = "HistoryTraversal"

\* two steps back under the prefix "a": the buffer shows the older match
\* "aa", the prefix is still "a"
C15_Witness ==
    /\ pc = "poll"
    /\ input_mode = "HistoryTraversal"
    /\ get_navigation(history) = PrefixSearch(<<"a">>)
    /\ history.cursor = 0
    /\ get_buffer(editor) = <<"a", "a">>

\* HistorySearch is the mode in which the next event or sub-event is handled
Searching == pc \in {"poll", "wrapper"} /\ input_mode = "HistorySearch"

\* the needle of the active query has become n by one re-installation of the
\* query and one back step; mode and editor are as they were, no Signal
NeedleEdited(r, n) ==
    /\ r.rl.history = back(set_navigation(history, SubstringSearch(n)))
    /\ r.rl.input_mode = "HistorySearch"
    /\ r.rl.editor = editor
    /\ r.signal = NoSignal

\* the handler that runs next edits the search string: an insert appends to
\* the needle, a backspace removes its last cluster, two inserts append both
SearchStringEdited ==
    LET q == get_navigation(history)
    IN  /\ q.kind = "SubstringSearch"
        /\ \A c \in Chars :
              /\ NeedleEdited(Handled(Edit(<<InsertChar(c)>>)), Append(q.s, c))
              /\ Handled(Edit(<<InsertChar(c), InsertChar(c)>>)).rl.history =
                     back(set_navigation(history, SubstringSearch(q.s \o <<c, c>>)))
        /\ NeedleEdited(Handled(Edit(<<Cmd("Backspace")>>)), remove_last_grapheme(q.s))

\* C16 for top-level events: an edit batch dispatched by handle_event in
\* HistorySearch edits the search string as claimed (this part holds).
C16_SearchEditDispatched == pc = "poll" /\ input_mode = "HistorySearch" => SearchStringEdited

\* C16: in HistorySearch mode each character insert appends to the needle and
\* each backspace removes the needle's last cluster, re-installing the query
\* and stepping back once; the mode stays HistorySearch, the text buffer is
\* not modified.  It is stated for every edit handled while the mode is
\* HistorySearch, the sub-events of a wrapper included.
C16_SearchStringEditing == Searching => SearchStringEdited

\* edit commands that neither insert a character nor are a backspace
OtherCommands == {Cmd(op) : op \in {"Delete", "MoveLeft", "MoveToEnd", "Clear", "Undo"}}

\* the handler that runs next aborts the search on each other edit command
SearchAborted ==
    \A c \in OtherCommands :
        LET r == Handled(Edit(<<c>>))
        IN  /\ r.rl.input_mode = "Regular"
            /\ r.signal = NoSignal
            /\ r.rl.editor.line_buffer = editor.line_buffer

\* C17 for top-level events: an edit command other than insert and backspace
\* dispatched by handle_event in HistorySearch aborts the search as claimed
\* (this part holds).
C17_SearchAbortDispatched == pc = "poll" /\ input_mode = "HistorySearch" => SearchAborted

\* C17: in HistorySearch mode an edit command other than character insert and
\* backspace sets the mode to Regular, produces no Signal and leaves the text
\* buffer as it was.  It is stated for every edit handled while the mode is
\* HistorySearch, the sub-events of a wrapper included.
C17_SearchAbort == Searching => SearchAborted

\* the handler that runs next commits the search on submit and on tab
SearchCommitted ==
    \A event \in {Ev("Enter"), Ev("HandleTab")} :
        LET r == Handled(event)
            at == string_at_cursor(history)
        IN  /\ IF at.some
               THEN /\ get_buffer(r.rl.editor) = at.v
                    /\ r.rl.editor.edits = Append(editor.edits, r.rl.editor.line_buffer)
               ELSE r.rl.editor = editor
            /\ r.rl.input_mode = "Regular"
            /\ r.signal = NoSignal
            /\ r.rl.history.entries = history.entries

\* C18 for top-level events: a submit or tab dispatched by handle_event in
\* HistorySearch commits the match as claimed (this part holds).
C18_SearchCommitDispatched == pc = "poll" /\ input_mode = "HistorySearch" => SearchCommitted

\* C18: in HistorySearch mode a submit or tab copies the matched history line
\* into the buffer and records an undo state when a match exists, leaves the
\* buffer unchanged when none exists, sets the mode to Regular, produces no
\* Signal and appends nothing to the history.  It is stated for every submit
\* or tab handled while the mode is HistorySearch, the sub-events of a wrapper
\* included.
C18_SearchCommit == Searching => SearchCommitted

\* the sub-event lists of a wrapper, up to MaxSub sub-events
SubEventLists ==
    UNION {[1..n -> SubEvents] : n \in 1..MaxSub}

\* C19: a paste wrapper handled in HistorySearch changes nothing, whatever its
\* sub-events: buffer, cursor, undo stack, needle, history cursor and mode
\* are as they were and no Signal is produced.
C19_SearchIgnoresPaste ==
    pc = "poll" /\ input_mode = "HistorySearch" =>
        \A evs \in SubEventLists :
            handle_event(Self, Paste(evs)) = Ok(Self, NoSignal)

\* a search is showing a match for the needle "a" over a buffer holding text:
\* the state in which a paste wrapper is dispatched and ignored
C19_Witness ==
    /\ pc = "poll"
    /\ input_mode = "HistorySearch"
    /\ get_navigation(history) = SubstringSearch(<<"a">>)
    /\ string_at_cursor(history).some
    /\ ~is_empty(editor)

\* e1..en dispatched one after another as top-level events: each by
\* handle_event in the mode the engine is in when it is reached, up to the
\* Signal that ends the read
RECURSIVE dispatch_each(_, _)
dispatch_each(acc, events) ==
    IF events = <<>> \/ acc.signal # NoSignal THEN acc
    ELSE dispatch_each(handle_event(acc.rl, Head(events)), Tail(events))

SameEffect(a, b) ==
    /\ a.rl.editor.line_buffer = b.rl.editor.line_buffer
    /\ a.rl.input_mode = b.rl.input_mode
    /\ a.rl.history = b.rl.history
    /\ a.signal = b.signal

\* C20: handling a multi-event wrapper [e1..en], in any mode, has the effect
\* on buffer, mode, query, history and returned Signal of dispatching e1..en
\* one after another as top-level events; so has handling a paste wrapper
\* outside HistorySearch.
C20_WrapperUnwrapping ==
    pc = "poll" =>
        \A evs \in SubEventLists :
            /\ SameEffect(handle_event(Self, Multiple(evs)),
                          dispatch_each(Ok(Self, NoSignal), evs))
            /\ input_mode # "HistorySearch" =>
                   SameEffect(handle_event(Self, Paste(evs)),
                              dispatch_each(Ok(Self, NoSignal), evs))

\* -------------------------------------------------- the undo specification
\* The command dispatcher alone, on a fresh engine in Regular mode: batches of
\* edit commands are run by run_edit_commands, the undo stack growing up to
\* MaxCheckpoints checkpoints.  An insert of a string is the insert whose
\* undo behaviour is Full.

UndoCommands ==
    {InsertChar("a"), InsertString(<<"a">>), Cmd("Backspace"), Cmd("MoveLeft"), Cmd("Undo")}

UndoBatches ==
    {<<c>> : c \in UndoCommands}
        \cup {<<InsertChar("a"), InsertChar("a")>>,
              <<InsertString(<<"a">>), InsertString(<<"a">>)>>}

UndoInit ==
    /\ Create(<<>>)
    /\ crossterm_events = <<>>
    /\ latest_resize = 0
    /\ reedline_events = <<>>
    /\ pc = "poll"
    /\ signal = NoSignal
    /\ wrapper = ""
    /\ pending = 0
    /\ latest_signal = NoSignal
    /\ burst = <<>>
    /\ dispatched = <<>>
    /\ painted = <<>>
    /\ raw_mode = "cooked"
    /\ completer = DefaultCompleter_default
    /\ hinter = DefaultHinter
    /\ input = <<>>
    /\ output = <<>>

\* run_edit_commands on the batch `commands`
RunEditCommands(commands) ==
    /\ pc = "poll"
    /\ \E rl \in {run_edit_commands(Self, commands)} :
          /\ Len(get_buffer(rl.editor)) <= MaxLen
          /\ Len(rl.editor.edits) <= MaxCheckpoints + 1
          /\ editor' = rl.editor
    /\ UNCHANGED <<completion, history, input_mode, painter, panicked, locals, unwrapping, pc, signal,
                   terminal>>

UndoNext == \E commands \in UndoBatches : RunEditCommands(commands)

SpecUndo == UndoInit /\ [][UndoNext]_vars

\* ed after `n` Undo commands run by run_edit_commands
RECURSIVE Undone(_, _)
Undone(ed, n) ==
    IF n = 0 THEN ed ELSE Undone(run_edit_commands_loop(ed, <<Cmd("Undo")>>), n - 1)

\* C21: run_edit_commands applies to each command, after the command, its
\* undo behaviour: Ignore records nothing, Full pushes a new checkpoint and
\* closes the open group, Coalesce replaces the checkpoint of the open group
\* or, when none is open, pushes one and opens a group.  So on the empty
\* buffer two Coalesce inserts are undone by one Undo, and two Full inserts
\* by two Undos and not by one.
C21_UndoPolicy ==
    /\ \A c \in UndoCommands :
          LET applied == apply_edit_command(editor, c)
              r == run_edit_commands(Self, <<c>>).editor
          IN  /\ r.line_buffer = applied.line_buffer
              /\ CASE undo_behavior(c) = "Ignore" ->
                        r.edits = applied.edits /\ r.open = applied.open
                   [] undo_behavior(c) = "Full" ->
                        r.edits = Append(applied.edits, applied.line_buffer) /\ ~r.open
                   [] OTHER ->
                        /\ r.open
                        /\ r.edits = IF applied.open /\ Len(applied.edits) > 1
                                     THEN Append(Take(applied.edits, Len(applied.edits) - 1),
                                                 applied.line_buffer)
                                     ELSE Append(applied.edits, applied.line_buffer)
    /\ is_empty(editor) /\ UndoReset(editor) /\ ~editor.open =>
          LET coalesced == run_edit_commands(
                               Self, <<InsertChar("a"), InsertChar("a")>>).editor
              full == run_edit_commands(
                          Self, <<InsertString(<<"a">>), InsertString(<<"a">>)>>).editor
          IN  /\ get_buffer(coalesced) = <<"a", "a">>
              /\ get_buffer(Undone(coalesced, 1)) = <<>>
              /\ get_buffer(full) = <<"a", "a">>
              /\ get_buffer(Undone(full, 1)) = <<"a">>
              /\ get_buffer(Undone(full, 2)) = <<>>

\* two Full inserts have run on the empty buffer: two checkpoints above the
\* base, no group open
C21_Witness ==
    /\ get_buffer(editor) = <<"a", "a">>
    /\ Len(editor.edits) = 3
    /\ get_buffer(set_line_buffer(editor, editor.edits[2])) = <<"a">>
    /\ ~editor.open

\* ------------------------------------ properties of the history navigation

Step(rl, event) == handle_editor_event(rl, event).rl

\* C22: under a Normal query a history step that leaves the history with no
\* entry at its cursor (forward past the newest entry, any step in an empty
\* history) leaves the buffer holding the snapshot the query keeps, content
\* and cursor: the buffer the traversal started from.
C22_NormalRoundTrip ==
    /\ pc \in {"poll", "wrapper"} /\ input_mode = "HistoryTraversal"
                                 /\ get_navigation(history).kind = "Normal" =>
          \A event \in HistorySteps :
              StepsHistory(event) /\ ~string_at_cursor(Step(Self, event).history).some =>
                  Step(Self, event).editor.line_buffer = get_navigation(history).original
    /\ Editing /\ input_mode = "Regular" =>
          \A event \in HistorySteps :
              LET r == Step(Self, event)
              IN  /\ StepsHistory(event)
                  /\ get_navigation(r.history).kind = "Normal"
                  /\ ~string_at_cursor(r.history).some
                  => /\ r.editor.line_buffer = editor.line_buffer
                     /\ Step(r, Ev("NextHistory")).editor.line_buffer = editor.line_buffer

\* a traversal that started in the middle of a buffer holding text has walked
\* a history holding entries and is past its newest entry: the buffer is the
\* snapshot again
C22_Witness ==
    /\ pc = "poll"
    /\ input_mode = "HistoryTraversal"
    /\ get_navigation(history).kind = "Normal"
    /\ get_navigation(history).original.lines # <<>>
    /\ history.entries # <<>>
    /\ ~string_at_cursor(history).some
    /\ editor.line_buffer = get_navigation(history).original

\* the entries that start with p, newest first
RECURSIVE MatchesNewestFirst(_, _)
MatchesNewestFirst(entries, p) ==
    IF entries = <<>> THEN <<>>
    ELSE LET last == entries[Len(entries)]
             rest == MatchesNewestFirst(Take(entries, Len(entries) - 1), p)
         IN  IF starts_with(last, p) THEN <<last>> \o rest ELSE rest

\* the engine after n previous-history events
RECURSIVE SteppedBack(_, _)
SteppedBack(rl, n) ==
    IF n = 0 THEN rl ELSE SteppedBack(Step(rl, Ev("PreviousHistory")), n - 1)

\* C23: from a non-empty buffer p with the cursor at its end, the n-th back
\* step shows the n-th newest history entry that starts with p, and once the
\* oldest such entry is shown every further back step shows it still.
C23_PrefixTraversal ==
    Editing /\ input_mode = "Regular" /\ ~is_empty(editor)
            /\ offset(editor) = Len(get_buffer(editor)) =>
        LET found == MatchesNewestFirst(history.entries, get_buffer(editor))
        IN  \A n \in 1..(Len(history.entries) + 1) :
                LET r == SteppedBack(Self, n)
                IN  /\ get_navigation(r.history) = PrefixSearch(get_buffer(editor))
                    /\ found # <<>> =>
                           get_buffer(r.editor) = found[Min(n, Len(found))]
                    /\ found = <<>> => get_buffer(r.editor) = get_buffer(editor)

\* two steps back from the buffer "a" have passed the entry "(" in between
\* and show the oldest entry starting with "a"
C23_Witness ==
    /\ pc = "poll"
    /\ input_mode = "HistoryTraversal"
    /\ get_navigation(history) = PrefixSearch(<<"a">>)
    /\ Len(history.entries) >= 3
    /\ history.cursor = 0
    /\ ~starts_with(history.entries[2], <<"a">>)
    /\ get_buffer(editor) = history.entries[1]

\* a navigation mode at a point where the handler of that mode runs next,
\* with a history entry at the cursor
Navigating ==
    /\ \/ pc = "poll" /\ input_mode = "HistorySearch"
       \/ pc \in {"poll", "wrapper"} /\ input_mode = "HistoryTraversal"
    /\ string_at_cursor(history).some

\* the line a navigation mode displays: the match at the history's cursor in
\* the search, the buffer in a traversal
Displayed(rl) ==
    IF rl.input_mode = "HistorySearch"
    THEN string_at_cursor(rl.history)
    ELSE Some(get_buffer(rl.editor))

\* `event` is a history step past the oldest or the newest match: the history
\* holds no further match in its direction
PastBoundary(event) ==
    /\ input_mode = "HistoryTraversal" => StepsHistory(event)
    /\ IF event.t \in {"PreviousHistory", "Up"}
       THEN back(history) = history
       ELSE ~string_at_cursor(forward(history)).some

\* C24 as stated: in HistoryTraversal and in HistorySearch a history step
\* past the oldest or newest match leaves the displayed line as it was.
C24_BoundaryPolicy ==
    Navigating =>
        \A event \in HistorySteps :
            PastBoundary(event) => Displayed(Handled(event).rl) = Displayed(Self)

\* C24: in HistorySearch a history step past the oldest or newest match
\* leaves the history's cursor on the match it was on (a forward step that
\* finds nothing is followed by a back step).  In HistoryTraversal a back
\* step past the oldest match leaves the cursor on it and the buffer showing
\* it; a forward step past the newest match leaves no entry at the cursor and
\* the buffer holding the snapshot of a Normal query or the prefix of a
\* PrefixSearch query.
C24_BoundarySteps ==
    Navigating =>
        \A event \in HistorySteps :
            PastBoundary(event) =>
                LET r == Handled(event).rl
                    q == get_navigation(history)
                IN  CASE input_mode = "HistorySearch" ->
                           /\ r.history = history
                           /\ r.editor = editor
                           /\ r.input_mode = "HistorySearch"
                      [] event.t \in {"PreviousHistory", "Up"} ->
                           /\ r.history = history
                           /\ get_buffer(r.editor) = string_at_cursor(history).v
                      [] OTHER ->
                           /\ ~string_at_cursor(r.history).some
                           /\ get_buffer(r.editor) =
                                  IF q.kind = "Normal" THEN q.original.lines ELSE q.s
                           /\ r.input_mode = "HistoryTraversal"

\* a traversal under the prefix "a" has stepped forward past the newest match
\* of a history that holds matches: the buffer shows the prefix
C24_Witness ==
    /\ pc = "poll"
    /\ input_mode = "HistoryTraversal"
    /\ get_navigation(history) = PrefixSearch(<<"a">>)
    /\ MatchesNewestFirst(history.entries, <<"a">>) # <<>>
    /\ ~string_at_cursor(history).some
    /\ get_buffer(editor) = <<"a">>

\* C33: in every reachable state the query of HistoryTraversal is Normal or
\* PrefixSearch and the query of HistorySearch is SubstringSearch, so that the
\* todo!() arm of update_buffer_from_history is never run, whatever the events,
\* those nested in Paste and Multiple wrappers included.
C33_ModeQueryConsistency ==
    /\ input_mode = "HistoryTraversal" =>
          get_navigation(history).kind \in {"Normal", "PrefixSearch"}
    /\ input_mode = "HistorySearch" =>
          get_navigation(history).kind = "SubstringSearch"
    /\ ~panicked

\* a wrapper's first sub-event has entered HistorySearch and its next one is
\* a step up, which enters HistoryTraversal under a fresh query
C33_Witness ==
    /\ pc = "wrapper"
    /\ input_mode = "HistorySearch"
    /\ get_navigation(history).kind = "SubstringSearch"
    /\ history.entries # <<>>
    /\ LET r == handle_editor_event(Self, Ev("Up"))
       IN  /\ r.rl.input_mode = "HistoryTraversal"
           /\ get_navigation(r.rl.history).kind \in {"Normal", "PrefixSearch"}
           /\ ~r.rl.panicked

\* the lines the handling of an event has appended to the history
Appended(r) ==
    SubSeq(r.rl.history.entries, Len(history.entries) + 1, Len(r.rl.history.entries))

\* the event appends at most one line, and returns the line it appends as
\* the success Signal
ReturnsSubmitted(event) ==
    LET r == handle_event(Self, event)
    IN  /\ Len(Appended(r)) <= 1
        /\ Len(Appended(r)) = 1 => r.signal = Success(Appended(r)[1])

\* C34: every line a submit appends to the history during a read is returned
\* as the success Signal of that read, and at most one line is appended, also
\* when the submits are sub-events of a Paste or Multiple wrapper.
C34_NoLostSubmit ==
    pc = "poll" =>
        /\ \A event \in TopEvents : ReturnsSubmitted(event)
        /\ \A evs \in SubEventLists :
              ReturnsSubmitted(Paste(evs)) /\ ReturnsSubmitted(Multiple(evs))

\* the part of it that holds: an event that is not a wrapper
C34_TopLevelSubmit ==
    pc = "poll" => \A event \in TopEvents : ReturnsSubmitted(event)

\* the read has returned a success, interrupt or end-of-input Signal
Returned == pc = "idle" /\ signal.kind \in {"Success", "CtrlC", "CtrlD"}

\* C35: whenever a read returns a success, interrupt or end-of-input Signal
\* the input mode is Regular, whichever mode the event was handled in.
C35_ModeAtReturn == Returned => input_mode = "Regular"

\* the part of it that holds: a success or interrupt Signal of an event that
\* is not a sub-event of a wrapper, and every Signal of HistorySearch
C35_ModeAtTopLevelReturn ==
    pc = "poll" =>
        \A event \in TopEvents :
            LET r == handle_event(Self, event)
            IN  \/ r.signal.kind \in {"Success", "CtrlC"}
                \/ r.signal.kind = "CtrlD" /\ input_mode = "HistorySearch"
                => r.rl.input_mode = "Regular"

\* handling `event` next leaves the text of the buffer as it is, unless it is
\* the submit or tab that commits the search and leaves HistorySearch
BufferFrozen(event) ==
    LET r == IF pc = "wrapper" /\ wrapper = "Paste"
             THEN paste_event(Ok(Self, latest_signal), event)
             ELSE Handled(event)
    IN  \/ get_buffer(r.rl.editor) = get_buffer(editor)
        \/ /\ event.t \in {"Enter", "HandleTab"}
           /\ r.rl.input_mode # "HistorySearch"

\* C36: while the mode is HistorySearch no event changes the text of the
\* buffer, except the submit or tab that commits the search and leaves the
\* mode; also when the search was entered by a sub-event of a wrapper and
\* further sub-events follow.
C36_BufferFrozenInSearch ==
    Searching => \A event \in IF pc = "wrapper" THEN SubEvents ELSE TopEvents :
                     BufferFrozen(event)

\* the part of it that holds: the events handle_event dispatches
C36_BufferFrozenAtTopLevel ==
    Searching /\ pc = "poll" =>
        /\ \A event \in TopEvents : BufferFrozen(event)
        /\ \A evs \in SubEventLists :
              BufferFrozen(Paste(evs)) /\ BufferFrozen(Multiple(evs))

\* the first n commands of the batch have aborted the search, and the whole
\* batch leaves the needle and the history cursor as those n commands did
QuietAfterAbort(batch, n) ==
    LET aborted == run_history_commands(Self, SubSeq(batch, 1, n))
        r == handle_event(Self, Edit(batch))
    IN  aborted.input_mode = "Regular" =>
            /\ get_navigation(r.rl.history) = get_navigation(aborted.history)
            /\ r.rl.history.cursor = aborted.history.cursor

\* C37: once an edit command of a batch dispatched in HistorySearch has set
\* the mode to Regular, the remaining commands of the batch neither change the
\* search needle nor step the history cursor.
C37_NoSearchEditsAfterAbort ==
    pc = "poll" /\ input_mode = "HistorySearch" =>
        \A batch \in EditBatches : \A n \in 1..Len(batch) : QuietAfterAbort(batch, n)

\* ------------------------------------------------- the paint specification
\* The read loop with its repaints: every event is handled whole (a wrapper
\* with all its sub-events) and `painted` holds the repaints its handling made.

\* the sub-events of a wrapper: a history search followed by an edit
PaintSubEventLists ==
    {<<Ev("SearchHistory"), Edit(<<InsertChar("a")>>)>>}

\* a resize makes the terminal as wide as the longest line
PaintEvents ==
    TopEvents
        \cup {Resize(MaxLen)}
        \cup {Paste(evs) : evs \in PaintSubEventLists}
        \cup {Multiple(evs) : evs \in PaintSubEventLists}

\* a session that starts with a history to traverse and to search
PaintInit == Init /\ history.entries # <<>>

\* read_line / read_line_helper up to the loop, with its first paint
ReadLinePainted ==
    /\ pc = "idle"
    /\ pc' = "poll"
    /\ signal' = NoSignal
    /\ painted' = Repaints(painted_by_read_line(Self))
    /\ UNCHANGED <<completion, engine, locals, unwrapping, raw_mode>>

\* one loop iteration on the event `event`
DispatchPainted(event) ==
    /\ pc = "poll"
    /\ \E r \in {handle_event(Self, event)} :
          Becomes(r.rl) /\ Returns(r.signal)
    /\ painted' = Repaints(painted_by_event(Self, event))
    /\ UNCHANGED <<completion, locals, unwrapping, raw_mode>>

PaintNext == ReadLinePainted \/ \E event \in PaintEvents : DispatchPainted(event)

SpecPaint == PaintInit /\ [][PaintNext]_vars

\* the submit that handle_editor_event rejects: the Validator finds the line
\* Incomplete and a newline is inserted
RejectedSubmit(event) ==
    /\ event.t = "Enter"
    /\ input_mode # "HistorySearch"
    /\ validate(get_buffer(editor)) # "Complete"

\* a full repaint is made before the next event is handled: by the handler,
\* or, when the read returned, by the next read before its loop
RepaintedInFull ==
    IF pc' = "poll"
    THEN \E i \in 1..Len(painted') : painted'[i].kind = "full"
    ELSE input_mode' # "HistorySearch"

\* C25: every event whose handling changes the input mode, every resize and
\* every rejected submit is followed, before the next event is handled, by a
\* full repaint.
C25_FullRepaintRule ==
    [][\A event \in PaintEvents :
          (/\ DispatchPainted(event)
           /\ \/ input_mode' # input_mode
              \/ event.t = "Resize"
              \/ RejectedSubmit(event))
            => RepaintedInFull]_vars

\* the part of the rule the handlers keep: every resize and every rejected
\* submit is followed by a full repaint
C25_ResizeAndRejection ==
    [][\A event \in PaintEvents :
          (DispatchPainted(event) /\ (event.t = "Resize" \/ RejectedSubmit(event)))
            => RepaintedInFull]_vars

\* hinters an engine may be given (with_hinter)
Hinters == {DefaultHinter, with_history(DefaultHinter)}

\* C26: the Hinter's hint computation is invoked only while the mode is
\* Regular: every repaint made for an event that asked the Hinter was
\* prepared in Regular mode, and whatever the hinter, content prepared in
\* HistoryTraversal or HistorySearch does not ask it and carries an empty hint.
C26_HintSuppression ==
    /\ \A i \in 1..Len(painted) :
          /\ painted[i].hinter => painted[i].mode = "Regular"
          /\ painted[i].mode # "Regular" => painted[i].hint = <<>>
    /\ input_mode # "Regular" =>
          \A h \in Hinters :
             prepare_buffer_content(h, Self) = [hinter |-> FALSE, hint |-> <<>>]

\* a full repaint was prepared in HistoryTraversal on a line that a hinter
\* with history would complete in Regular mode
C26_Witness ==
    /\ input_mode = "HistoryTraversal"
    /\ \E i \in 1..Len(painted) :
          painted[i].kind = "full" /\ painted[i].mode = "HistoryTraversal"
    /\ prepare_buffer_content_hinting(with_history(DefaultHinter), Self).hint # <<>>

Err == [kind |-> "Err", text |-> <<>>]

\* terminal::enable_raw_mode and terminal::disable_raw_mode, `ok` telling
\* whether the terminal accepts the change
enable_raw_mode(mode, ok) == IF ok THEN "raw" ELSE mode
disable_raw_mode(mode, ok) ==
    IF ok THEN "cooked" ELSE IF mode = "raw" THEN "failed" ELSE mode

\* read_line leaving at once when the helper returned an error
read_line_propagating(mode, result, ok) ==
    IF result.kind = "Err"
    THEN [raw_mode |-> mode, result |-> result]
    ELSE [raw_mode |-> disable_raw_mode(mode, ok), result |-> IF ok THEN result ELSE Err]

\* read_line after read_line_helper returned `result`:
\* terminal::disable_raw_mode()?; result
read_line(mode, result, ok) ==
    [raw_mode |-> disable_raw_mode(mode, ok), result |-> IF ok THEN result ELSE Err]

\* the read ends with the helper's `result`
ReadEnds(mode, result) ==
    /\ pc' = "idle"
    /\ \E ok \in BOOLEAN :
          /\ raw_mode' = read_line(mode, result, ok).raw_mode
          /\ signal' = read_line(mode, result, ok).result

\* a submit, history steps, the search, the interrupts and two edits
IOEvents ==
    {Ev(t) : t \in {"Enter", "Up", "Down", "SearchHistory", "CtrlD", "CtrlC"}}
        \cup {Edit(<<InsertChar("a")>>), Edit(<<Cmd("Backspace")>>)}

IOInit == PaintInit

\* the first read_line of the session up to the loop: enable_raw_mode fails
\* and the read ends, or raw mode is enabled and read_line_helper begins,
\* where the terminal operation `failing` fails (0: none does)
ReadLineIO ==
    /\ pc = "idle"
    /\ signal = NoSignal
    /\ \E ok \in BOOLEAN :
          IF ~ok
          THEN /\ signal' = Err
               /\ raw_mode' = enable_raw_mode(raw_mode, FALSE)
               /\ UNCHANGED <<pc, painted>>
          ELSE \E failing \in 0..Len(painted_by_read_line(Self)) :
                  /\ painted' = Repaints(Take(painted_by_read_line(Self),
                                              IF failing = 0
                                              THEN Len(painted_by_read_line(Self))
                                              ELSE failing - 1))
                  /\ IF failing = 0
                     THEN /\ raw_mode' = enable_raw_mode(raw_mode, TRUE)
                          /\ pc' = "poll"
                          /\ signal' = NoSignal
                     ELSE ReadEnds(enable_raw_mode(raw_mode, TRUE), Err)
    /\ UNCHANGED <<completion, engine, locals, unwrapping>>

\* one loop iteration on the event `event`, no terminal operation failing
DispatchIO(event) ==
    /\ pc = "poll"
    /\ \E r \in {handle_event(Self, event)} :
          /\ Becomes(r.rl)
          /\ IF r.signal.kind # "None"
             THEN ReadEnds(raw_mode, r.signal)
             ELSE UNCHANGED <<pc, signal, raw_mode>>
    /\ painted' = Repaints(painted_by_event(Self, event))
    /\ UNCHANGED <<completion, locals, unwrapping>>

\* the terminal operations of the handling of `event`, by their position
IOSteps(event) == 1..Len(painted_by_event(Self, event))

\* one loop iteration on the event `event`, the i-th terminal operation of
\* its handling failing: `?` returns the error from where the handler is
FailIO(event, i) ==
    /\ pc = "poll"
    /\ i \in IOSteps(event)
    /\ \E ios \in {painted_by_event(Self, event)} :
          /\ Becomes(ios[i].rl)
          /\ painted' = Repaints(Take(ios, i - 1))
    /\ ReadEnds(raw_mode, Err)
    /\ UNCHANGED <<completion, locals, unwrapping>>

\* event::poll or event::read fails
PollFails ==
    /\ pc = "poll"
    /\ painted' = <<>>
    /\ ReadEnds(raw_mode, Err)
    /\ UNCHANGED <<completion, engine, locals, unwrapping>>

\* the i-th terminal operation of the handling of `event` is a repaint, and
\* a collaborator panics while its content is prepared: read_line is left by
\* unwinding
PanicIO(event, i) ==
    /\ pc = "poll"
    /\ i \in IOSteps(event)
    /\ \E ios \in {painted_by_event(Self, event)} :
          /\ ios[i].kind \in {"full", "buffer", "search", "wrap"}
          /\ Becomes(ios[i].rl)
          /\ painted' = Repaints(Take(ios, i - 1))
    /\ pc' = "unwinding"
    /\ UNCHANGED <<completion, locals, unwrapping, signal, raw_mode>>

\* impl Drop for Reedline, between reads or while unwinding
DropEngine ==
    /\ pc \in {"idle", "unwinding"}
    /\ pc' = "dropped"
    /\ \E ok \in BOOLEAN : raw_mode' = disable_raw_mode(raw_mode, ok)
    /\ UNCHANGED <<completion, engine, locals, unwrapping, signal, painted>>

IONext ==
    \/ ReadLineIO
    \/ \E event \in IOEvents : DispatchIO(event)
    \/ \E event \in IOEvents : \E i \in IOSteps(event) : FailIO(event, i)
    \/ PollFails
    \/ \E event \in IOEvents : \E i \in IOSteps(event) : PanicIO(event, i)
    \/ DropEngine

SpecIO == IOInit /\ [][IONext]_vars

C28_FailureLeavesState ==
    [][\A event \in IOEvents : \A i \in IOSteps(event) :
          FailIO(event, i) =>
             /\ signal' = Err
             /\ get_buffer(editor') = get_buffer(editor)
             /\ input_mode' = input_mode
             /\ history'.entries = history.entries
             /\ editor'.edits = editor.edits]_vars

\* the part that holds: the read returns the error
C28_FailureReturned ==
    [][\A event \in IOEvents : \A i \in IOSteps(event) :
          FailIO(event, i) => (signal' = Err /\ pc' = "idle")]_vars

\* -------------------------------------------------- the span specification
\* Span::new called once on a pair of offsets.

Offsets == 0..MaxOffset

\* an engine between reads, not part of the calls
Idle ==
    /\ Create(<<>>)
    /\ crossterm_events = <<>>
    /\ latest_resize = 0
    /\ reedline_events = <<>>
    /\ pc = "idle"
    /\ signal = NoSignal
    /\ wrapper = ""
    /\ pending = 0
    /\ latest_signal = NoSignal
    /\ burst = <<>>
    /\ dispatched = <<>>
    /\ painted = <<>>
    /\ raw_mode = "cooked"
    /\ hinter = DefaultHinter

SpanInit ==
    /\ Idle
    /\ completer = DefaultCompleter_default
    /\ input \in Offsets \X Offsets
    /\ output = <<>>

\* Span::new(start, end) on the pair drawn
SpanNew ==
    /\ output = <<>>
    /\ output' = Span_new(input[1], input[2])
    /\ UNCHANGED <<engine, locals, unwrapping, pc, signal, terminal, completer, hinter, input>>

SpanNext == SpanNew

SpecSpan == SpanInit /\ [][SpanNext]_vars

\* C29: for all offsets (start, end), Span::new panics when end < start, and
\* when end >= start it returns the Span that stores exactly start and end.
C29_SpanConstruction ==
    output # <<>> =>
        /\ input[2] < input[1] => output.panicked
        /\ input[2] >= input[1] =>
              /\ ~output.panicked
              /\ output.start = input[1]
              /\ output.end = input[2]

\* Span::new was called with an end before the start, and panicked
C29_Witness ==
    /\ output # <<>>
    /\ input[2] < input[1]
    /\ output.panicked

\* ---------------------------------------------- the completer specification
\* A DefaultCompleter, with or without inclusions, into which words are
\* inserted and which is then asked to complete a line.

CompleterWords ==
    {<<"a", "b">>, <<"a", "b", "b">>, <<"b", " ", "a", "b">>, <<"b">>,
     <<"a", "-", "b">>, <<"b", "a">>, <<"-", "a", "b">>}

Lines == UNION {[1..n -> {"a", "b", " "}] : n \in 0..MaxLine}

CompleterInit ==
    /\ Idle
    /\ \E incl \in {{}, {"-"}} : completer = with_inclusions(incl)
    /\ input = <<>>
    /\ output = <<>>

\* completer.insert(vec![word])
CompleterInsert(word) ==
    /\ output = <<>>
    /\ completer' = insert(completer, <<word>>)
    /\ UNCHANGED <<engine, locals, unwrapping, pc, signal, terminal, hinter, input, output>>

\* completer.complete(line, pos)
CompleterComplete(line, pos) ==
    /\ output = <<>>
    /\ input' = <<line, pos>>
    /\ output' = complete(completer, line, pos)
    /\ UNCHANGED <<engine, locals, unwrapping, pc, signal, terminal, completer, hinter>>

\* completer.clear()
CompleterClear ==
    /\ output = <<>>
    /\ completer' = clear_tree(completer)
    /\ UNCHANGED <<engine, locals, unwrapping, pc, signal, terminal, hinter, input, output>>

CompleterNext ==
    \/ \E word \in CompleterWords : CompleterInsert(word)
    \/ CompleterClear
    \/ \E line \in Lines : \E pos \in 0..Len(line) : CompleterComplete(line, pos)

SpecCompleter == CompleterInit /\ [][CompleterNext]_vars

\* the words of s, in order: its pieces between spaces that are not empty
words_of(s) == SelectSeq(split(s), LAMBDA piece : piece # <<>>)

\* words joined by single spaces
RECURSIVE join(_)
join(ws) ==
    IF ws = <<>> THEN <<>>
    ELSE IF Len(ws) = 1 THEN ws[1]
    ELSE ws[1] \o <<" ">> \o join(Tail(ws))

\* the completion t of line at pos replaces trailing words of line[0..pos],
\* from the start of a word on, and begins with these words
CompletesTrailingWords(t, line, pos) ==
    /\ t.span.start = 0 \/ line[t.span.start] = " "
    /\ words_of(SubSeq(line, t.span.start + 1, pos)) # <<>>
    /\ starts_with(t.replacement, join(words_of(SubSeq(line, t.span.start + 1, pos))))

\* C30: every completion returned by complete(line, pos) has a span that
\* ends at pos and does not start after it, a replacement strictly longer
\* than the span and beginning with the trailing words of line[0..pos] that
\* it completes, and the replacements of one span are in ascending order.
C30_Completions ==
    output # <<>> =>
        LET line == input[1]
            pos == input[2]
            found == output.completions
        IN  /\ ~output.panicked
            /\ \A i \in 1..Len(found) :
                  /\ found[i].span.end = pos
                  /\ found[i].span.start <= found[i].span.end
                  /\ Len(found[i].replacement) > found[i].span.end - found[i].span.start
                  /\ CompletesTrailingWords(found[i], line, pos)
            /\ \A i, j \in 1..Len(found) :
                  (i < j /\ found[i].span = found[j].span)
                      => str_lt(found[i].replacement, found[j].replacement)

\* a line of two words is completed from its last word, with two
\* replacements of the same span, and from both words
C30_Witness ==
    /\ output # <<>>
    /\ \E i, j, k \in 1..Len(output.completions) :
          /\ i < j
          /\ output.completions[i].span = output.completions[j].span
          /\ output.completions[k].span.start < output.completions[i].span.start
          /\ output.completions[i].span.start > 0

\* C31: after clear(), whatever words were inserted before, word_count() is 0
\* and size() is 1, and complete() returns no completion for any non-empty
\* line.
C31_ClearEmptiesTree ==
    [][CompleterClear =>
          /\ word_count(completer') = 0
          /\ size(completer') = 1
          /\ \A line \in Lines \ {<<>>} : \A pos \in 0..Len(line) :
                complete(completer', line, pos).completions = <<>>]_vars

\* the part of it that holds: the tree has one node and completes nothing
C31_ClearEmptiesSubnodes ==
    [][CompleterClear =>
          /\ size(completer') = 1
          /\ \A line \in Lines \ {<<>>} : \A pos \in 0..Len(line) :
                complete(completer', line, pos).completions = <<>>]_vars

\* ------------------------------------------------- the hinter specification
\* A DefaultHinter as its builders configure it, over the history of the
\* session; handle is called on lines of up to MaxLine characters with the
\* position anywhere within the line, any number of times until a call
\* panics.  input is (line, pos) of the last call and output is
\* [panicked, hint]: whether the call panicked and the string it returned.

HinterHistories ==
    {<<>>, << <<"a", "b">> >>, << <<"b", NL, "a">>, <<"a">> >>}

HinterWords == <<"a", "b", "b">>

HinterConfigs ==
    {DefaultHinter,
     with_history(DefaultHinter),
     with_inside_line(with_history(DefaultHinter)),
     with_completer(DefaultHinter, insert(DefaultCompleter_default, <<HinterWords>>)),
     with_inside_line(
         with_completer(DefaultHinter, insert(DefaultCompleter_default, <<HinterWords>>)))}

HinterInit ==
    /\ \E entries \in HinterHistories : Create(entries)
    /\ crossterm_events = <<>>
    /\ latest_resize = 0
    /\ reedline_events = <<>>
    /\ pc = "idle"
    /\ signal = NoSignal
    /\ wrapper = ""
    /\ pending = 0
    /\ latest_signal = NoSignal
    /\ burst = <<>>
    /\ dispatched = <<>>
    /\ painted = <<>>
    /\ raw_mode = "cooked"
    /\ completer = DefaultCompleter_default
    /\ hinter \in HinterConfigs
    /\ input = <<>>
    /\ output = <<>>

\* hinter.handle(line, pos, history, false)
HinterHandle(line, pos) ==
    /\ output # <<>> => ~output.panicked
    /\ \E r \in {handle(hinter, line, pos, history)} :
          /\ hinter' = r.hinter
          /\ output' = [panicked |-> r.panicked, hint |-> r.output]
    /\ input' = <<line, pos>>
    /\ UNCHANGED <<engine, locals, unwrapping, pc, signal, terminal, completer>>

HinterNext == \E line \in Lines : \E pos \in 0..Len(line) : HinterHandle(line, pos)

SpecHinter == HinterInit /\ [][HinterNext]_vars

\* the completions the hinter's source finds for the last call
Completions ==
    IF hinter.completer.some THEN complete(hinter.completer.v, input[1], input[2]).completions
    ELSE IF hinter.history THEN history_complete(history.entries, input[1], input[2])
    ELSE <<>>

\* the first completion's replacement without its first span.end - span.start
\* characters; empty without a completion, and when the cursor is inside the
\* line and the inside-line option is not set
FirstCompletionCut ==
    IF (input[2] # Len(input[1]) /\ ~hinter.inside_line) \/ Completions = <<>>
    THEN <<>>
    ELSE Drop(Completions[1].replacement,
              Completions[1].span.end - Completions[1].span.start)

\* C39: every call of handle(line, pos, ...) with pos within the line completes
\* without failure, and after it current_hint() is the hint of that call: the
\* first completion's replacement with its first span.end - span.start bytes
\* removed, or the empty string; never a hint of an earlier call.
C39_HinterState ==
    output # <<>> =>
        /\ ~output.panicked
        /\ hinter.current_hint = FirstCompletionCut

\* the part of it that holds: a call that returns leaves in current_hint the
\* string it returned, which is that hint with every "\n" made "\r\n"
C39_HintOfReturnedCall ==
    output # <<>> /\ ~output.panicked =>
        /\ hinter.current_hint = output.hint
        /\ hinter.current_hint = replace_nl(FirstCompletionCut)

====
